---- MODULE Spec2Model ----
(***************************************************************************)
(* a2a-trace: the forward proxy (internal/proxy), the classifier           *)
(* (Interceptor), the analyzer (internal/analyzer) and the Store, as a     *)
(* state machine.  Every inbound request is served by its own goroutine    *)
(* (net/http), so the handlers below run interleaved; the OnMessage        *)
(* callback of cmd/a2a-trace/main.go runs Hub.BroadcastMessage and         *)
(* Analyzer.AnalyzeMessage inline in the handler's goroutine.              *)
(***************************************************************************)
EXTENDS Integers, Sequences, FiniteSets, TLC

(***************************************************************************)
(* Bounds of the model.                                                    *)
(***************************************************************************)
\* exchanges served in one behaviour of the retry-loop specification
MaxRetryExchanges == 5
\* exchanges served in one behaviour of the analyzer specification
MaxAnalyzed == 1
\* the wall clock stops advancing at this many ticks
MaxClock == 3
\* chunks relayed through one CONNECT tunnel
MaxTunnel == 1
\* Hub.Broadcast* calls in one behaviour of the hub specification
MaxPublished == 4
\* cap(client.send), 256 in the program
SendCap == 2
\* cap(h.broadcast), 256 in the program
BroadcastCap == 1
\* Manager.Start calls in one behaviour of the manager specification
MaxStarts == 3
\* Manager.Stop calls in one behaviour of the manager specification
MaxStops == 2
\* Store calls begun in one behaviour of the store specification
MaxStoreCalls == 3
\* frames the observers send in one behaviour of the observer specification
MaxFrames == 2

\* the goroutines serving inbound requests concurrently
Handlers == {"h1", "h2"}

(***************************************************************************)
(* Program constants.                                                      *)
(***************************************************************************)
\* analyzer.Config.SlowThreshold = time.Second, in milliseconds
SlowThresholdMs == 1000
\* checkRetryLoop fires on multiples of this count
RetryEvery == 5
\* one tick of the model's wall clock, in milliseconds
TickMs == SlowThresholdMs \div 2

VARIABLES
    clock,          \* time.Now(), in ticks
    messages,       \* Store: the rows of table messages, in insertion order
    insights,       \* Store: the rows of table insights, in insertion order
    agents,         \* Store: the rows of table agents (url is UNIQUE)
    broadcast,      \* every send on Hub.broadcast so far, in order
    methodCounts,   \* Analyzer.methodCounts
    agentErrors,    \* Analyzer.agentErrors
    requestTimes,   \* Analyzer.requestTimes
    pc,             \* where each handler goroutine stands
    loc,            \* each handler goroutine's local variables
    exch,           \* history: what the caller and upstream saw, per exchange
    crashed,        \* the runtime threw "concurrent map writes"
    hub,            \* websocket.Hub, its observer sessions and its publishers
    sup,            \* main: the trace, process.Manager and the child process
    st              \* Store.mu and the goroutines inside a Store call

vars == <<clock, messages, insights, agents, broadcast, methodCounts,
          agentErrors, requestTimes, pc, loc, exch, crashed, hub, sup, st>>

\* the state of the proxy, the Store's tables and the Analyzer
proxyState == <<clock, messages, insights, agents, broadcast, methodCounts,
               agentErrors, requestTimes, pc, loc, exch, crashed>>

(***************************************************************************)
(* Bodies.  A body is kept as what encoding/json sees in it: whether it is *)
(* empty, not JSON, the JSON value null, a JSON array or a JSON object,    *)
(* and for an object the keys present and the values the code reads.       *)
(* Two bodies are the same bytes iff they are the same record.             *)
(***************************************************************************)
NoId == [k |-> "absent", s |-> "", n |-> 0]
NumId(n) == [k |-> "num", s |-> "", n |-> n]
StrId(s) == [k |-> "str", s |-> s, n |-> 0]
NoCard == [name |-> "", description |-> "", version |-> "", skills |-> "null"]

RawBody(kind) ==
    [kind |-> kind, keys |-> {}, method |-> "", id |-> NoId, errmsg |-> "",
     card |-> NoCard]
EmptyBody == RawBody("empty")
GarbageBody == RawBody("garbage")
NullBody == RawBody("null")
ArrayBody == RawBody("array")
ObjectBody(keys) == [RawBody("object") EXCEPT !.keys = keys]

\* {"jsonrpc":"2.0","method":m,"id":id,"params":{}}; no "id" key for NoId
RpcCall(m, id) ==
    [RawBody("object") EXCEPT
        !.keys = {"jsonrpc", "method", "params"}
                 \cup (IF id.k = "absent" THEN {} ELSE {"id"}),
        !.method = m, !.id = id]
\* {"jsonrpc":"2.0","id":id,"result":{...}}
RpcResult(id) ==
    [RawBody("object") EXCEPT !.keys = {"jsonrpc", "id", "result"}, !.id = id]
\* {"jsonrpc":"2.0","id":id,"error":{"code":c,"message":msg}}
RpcError(id, msg) ==
    [RawBody("object") EXCEPT
        !.keys = {"jsonrpc", "id", "error"}, !.id = id, !.errmsg = msg]
\* {"name":..,"url":..,"version":..,"skills":[..]}
CardBody(name, version, skills) ==
    [RawBody("object") EXCEPT
        !.keys = {"name", "url", "version", "skills"},
        !.card = [name |-> name, description |-> "", version |-> version,
                  skills |-> skills]]

\* len(body)
BodyLen(b) == IF b.kind = "empty" THEN 0 ELSE 1

\* json.Unmarshal(body, &v) for a struct or map v: no error for a JSON object
\* and for null (which leaves v at its zero value); an error otherwise
UnmarshalOk(b) == b.kind \in {"object", "null"}

(***************************************************************************)
(* Identifiers.  uuid.New() returns a value no earlier call returned and   *)
(* no party chose; the model names it after what it was drawn for.         *)
(***************************************************************************)
Uuid(tag, x) == tag \o "-" \o ToString(x)

(***************************************************************************)
(* store.Message, store.Insight, store.Agent (Go zero values by default).  *)
(* xid is history only: the exchange a row was written for.                *)
(***************************************************************************)
NoUrl == [host |-> "", path |-> ""]
NoMsg ==
    [id |-> "", ts |-> 0, dir |-> "", from |-> "", to |-> "", method |-> "",
     url |-> NoUrl, body |-> EmptyBody, dur |-> 0, status |-> 0, err |-> "",
     reqId |-> "", ctype |-> "", xid |-> 0]

NoDetails == [method |-> "", count |-> 0, violations |-> {}, dur |-> 0]
Insight(msg, type, category, details, now) ==
    [id |-> Uuid(category, msg.xid) \o ":" \o msg.dir, msgId |-> msg.id,
     type |-> type, category |-> category, details |-> details, ts |-> now,
     xid |-> msg.xid]

(***************************************************************************)
(* Interceptor (internal/proxy/interceptor.go).                            *)
(***************************************************************************)
\* strings.Contains(contentType, "application/json"), over the content types
\* the model's requests carry
ContainsJSON(ct) == ct \in {"application/json", "application/json; charset=utf-8"}

\* strings.Contains(path, "/.well-known/agent.json"), over the model's paths
ContainsAgentCardPath(path) ==
    path \in {"/.well-known/agent.json", "/v1/.well-known/agent.json",
              "/.well-known/agent.json/x"}

IsA2ARequest(r) ==
    IF ~ContainsJSON(r.ctype) THEN FALSE
    ELSE IF r.method # "POST"
         THEN r.method = "GET" /\ ContainsAgentCardPath(r.url.path)
         ELSE TRUE

\* string(rune(int(v))): the UTF-8 encoding of code point v, not its decimal
\* digits
RuneString(n) ==
    CASE n = 7 -> "<U+0007>"
      [] n = 46 -> "."
      [] n = 48 -> "0"
      [] n = 49 -> "1"
      [] OTHER -> "<U+" \o ToString(n) \o ">"

\* strings.Replace(s, ".", "", 1), then TrimSuffix "0", then TrimSuffix ".",
\* of a string of one rune
TrimOneRune(s) == IF s \in {".", "0"} THEN "" ELSE s

formatRequestID(id) ==
    CASE id.k = "str" -> id.s
      [] id.k = "num" -> TrimOneRune(RuneString(id.n))
      [] OTHER -> "null"

extractAgentFromURL(url) == url.host

\* the request Message, before Store.SaveMessage gives it an id
ParseRequest(r, now, x) ==
    LET ok == UnmarshalOk(r.body)
        hasId == r.body.id.k \in {"str", "num"}
    IN [NoMsg EXCEPT
            !.ts = now, !.dir = "request", !.url = r.url, !.ctype = r.ctype,
            !.body = r.body, !.to = extractAgentFromURL(r.url),
            !.method = IF ok THEN r.body.method ELSE "",
            !.reqId = IF ok /\ hasId THEN formatRequestID(r.body.id) ELSE "",
            !.xid = x]

\* http.StatusText
StatusText(code) ==
    CASE code = 200 -> "OK"
      [] code = 400 -> "Bad Request"
      [] code = 404 -> "Not Found"
      [] code = 500 -> "Internal Server Error"
      [] code = 502 -> "Bad Gateway"
      [] OTHER -> ""

\* the response Message, before Store.SaveMessage gives it an id
ParseResponse(resp, requestMsg, durationMs, now) ==
    LET rpcErr == IF UnmarshalOk(resp.body) /\ "error" \in resp.body.keys
                  THEN resp.body.errmsg ELSE ""
    IN [NoMsg EXCEPT
            !.ts = now, !.dir = "response", !.url = requestMsg.url,
            !.from = requestMsg.to, !.status = resp.status,
            !.ctype = resp.ctype, !.body = resp.body, !.dur = durationMs,
            !.reqId = requestMsg.reqId,
            !.err = IF resp.status >= 400 THEN StatusText(resp.status)
                    ELSE rpcErr,
            !.xid = requestMsg.xid]

\* the Agent of a card body, or NoAgent where ParseAgentCard returns nil
NoAgent ==
    [id |-> "", url |-> NoUrl, name |-> "", description |-> "",
     version |-> "", skills |-> "", firstSeen |-> 0, xid |-> 0]
ParseAgentCard(body, url, now, x) ==
    IF ~UnmarshalOk(body) THEN NoAgent
    ELSE [id |-> "", url |-> url, name |-> body.card.name,
          description |-> body.card.description,
          version |-> body.card.version, skills |-> body.card.skills,
          firstSeen |-> now, xid |-> x]

(***************************************************************************)
(* Analyzer rules (internal/analyzer/analyzer.go).  Each returns the       *)
(* insights it adds: none or one.                                          *)
(***************************************************************************)
\* checkSlowResponse firing from the threshold on
checkSlowResponse_fromThreshold(msg, now) ==
    IF msg.dur < SlowThresholdMs THEN <<>>
    ELSE << Insight(msg, "warning", "slow_response",
                    [NoDetails EXCEPT !.dur = msg.dur, !.method = msg.method],
                    now) >>

checkSlowResponse(msg, now) ==
    IF msg.dur <= SlowThresholdMs THEN <<>>
    ELSE << Insight(msg, "warning", "slow_response",
                    [NoDetails EXCEPT !.dur = msg.dur, !.method = msg.method],
                    now) >>

\* the guard of checkError: it returns nil when this is false
IsErrorResponse(msg) == ~(msg.err = "" /\ msg.status < 400)

errorInsightType(msg) ==
    IF msg.status >= 400 /\ msg.status < 500 THEN "warning" ELSE "error"

checkError(msg, now) ==
    IF ~IsErrorResponse(msg) THEN <<>>
    ELSE << Insight(msg, errorInsightType(msg), "error",
                    [NoDetails EXCEPT !.method = msg.method], now) >>

\* the keys of the map json.Unmarshal fills: none for null
MapKeys(body) == IF body.kind = "object" THEN body.keys ELSE {}

\* protocolViolations asking for "id" whatever the status
protocolViolations_anyStatus(msg) ==
    IF msg.body.kind # "empty" /\ UnmarshalOk(msg.body)
    THEN (IF "jsonrpc" \notin MapKeys(msg.body)
          THEN {"Missing 'jsonrpc' field"} ELSE {})
         \cup
         (IF "id" \notin MapKeys(msg.body) /\ "result" \in MapKeys(msg.body)
          THEN {"Missing 'id' field in response"} ELSE {})
    ELSE {}

protocolViolations(msg) ==
    IF msg.body.kind # "empty" /\ UnmarshalOk(msg.body)
    THEN (IF "jsonrpc" \notin MapKeys(msg.body)
          THEN {"Missing 'jsonrpc' field"} ELSE {})
         \cup
         (IF "id" \notin MapKeys(msg.body)
             /\ msg.status >= 200 /\ msg.status < 300
             /\ "result" \in MapKeys(msg.body)
          THEN {"Missing 'id' field in response"} ELSE {})
    ELSE {}

checkProtocolViolation(msg, now) ==
    IF protocolViolations(msg) = {} THEN <<>>
    ELSE << Insight(msg, "warning", "protocol_violation",
                    [NoDetails EXCEPT !.violations = protocolViolations(msg)],
                    now) >>

\* count is a.methodCounts[msg.Method] as read by checkRetryLoop
checkRetryLoop(msg, count, now) ==
    IF msg.method = "" THEN <<>>
    ELSE IF count > 0 /\ count % RetryEvery = 0
         THEN << Insight(msg, "warning", "retry_loop",
                         [NoDetails EXCEPT !.method = msg.method,
                                           !.count = count], now) >>
         ELSE <<>>

\* a Go map read: the zero value for a missing key
MapGet(m, k) == IF k \in DOMAIN m THEN m[k] ELSE 0
MapPut(m, k, v) == [x \in DOMAIN m \cup {k} |-> IF x = k THEN v ELSE m[x]]

(***************************************************************************)
(* Store (package store).  A failed INSERT leaves the table as it was.     *)
(***************************************************************************)
HasId(rows, id) == \E i \in DOMAIN rows : rows[i].id = id

\* an INSERT OR REPLACE: the row with the id is overwritten
InsertRow_replacing(rows, row) ==
    IF HasId(rows, row.id)
    THEN [i \in DOMAIN rows |-> IF rows[i].id = row.id THEN row ELSE rows[i]]
    ELSE Append(rows, row)

\* INSERT INTO messages: id is the PRIMARY KEY
InsertRow(rows, row) == IF HasId(rows, row.id) THEN rows ELSE Append(rows, row)

\* an INSERT INTO agents without the ON CONFLICT clause and without the
\* UNIQUE constraint
UpsertAgent_appending(rows, agent) == Append(rows, agent)

\* INSERT INTO agents ... ON CONFLICT(url) DO UPDATE SET name, description,
\* version, skills
UpsertAgent(rows, agent) ==
    IF \E i \in DOMAIN rows : rows[i].url = agent.url
    THEN [i \in DOMAIN rows |->
            IF rows[i].url = agent.url
            THEN [rows[i] EXCEPT !.name = agent.name,
                                 !.description = agent.description,
                                 !.version = agent.version,
                                 !.skills = agent.skills,
                                 !.xid = agent.xid]
            ELSE rows[i]]
    ELSE Append(rows, agent)

\* the events BroadcastMessage, BroadcastInsight and BroadcastAgent send
MessageEvent(msg) ==
    [type |-> "message", id |-> msg.id, dir |-> msg.dir, xid |-> msg.xid]
InsightEvent(ins) ==
    [type |-> "insight", id |-> ins.id, dir |-> ins.category, xid |-> ins.xid]
AgentEvent(agent) ==
    [type |-> "agent", id |-> agent.id, dir |-> "", xid |-> agent.xid]

(***************************************************************************)
(* The environment: an inbound request, what the upstream call comes to,   *)
(* and what the caller is sent back.                                       *)
(***************************************************************************)
Request(method, ctype, host, path, body) ==
    [method |-> method, ctype |-> ctype, url |-> [host |-> host, path |-> path],
     body |-> body, readErr |-> FALSE]
NoReq == Request("", "", "", "", EmptyBody)

NoUp ==
    [kind |-> "none", status |-> 0, ctype |-> "", body |-> EmptyBody,
     delay |-> 0, errText |-> ""]
\* p.client.Do returns an error after delay ticks
TransportFailure(delay, text) ==
    [NoUp EXCEPT !.kind = "transport", !.delay = delay, !.errText = text]
\* http.NewRequest returns an error
BuildFailure == [NoUp EXCEPT !.kind = "buildfail"]
\* p.client.Do succeeds and io.ReadAll(resp.Body) returns an error
BodyReadFailure(status, delay) ==
    [NoUp EXCEPT !.kind = "readfail", !.status = status, !.delay = delay]
\* upstream answers after delay ticks
Answer(status, ctype, body, delay) ==
    [NoUp EXCEPT !.kind = "ok", !.status = status, !.ctype = ctype,
                 !.body = body, !.delay = delay]

\* the body http.Error writes
TextBody(text) == [RawBody("text") EXCEPT !.errmsg = text]
NoReply == [sent |-> FALSE, status |-> 0, body |-> EmptyBody]
Reply(status, body) == [sent |-> TRUE, status |-> status, body |-> body]

IdleLoc ==
    [xid |-> 0, req |-> NoReq, captured |-> FALSE, reqMsg |-> NoMsg,
     respMsg |-> NoMsg, startTime |-> 0, up |-> NoUp, cur |-> "", tmp |-> 0,
     pending |-> <<>>, agent |-> NoAgent]

Exchange(r) ==
    [req |-> r, captured |-> FALSE, up |-> NoUp, reply |-> NoReply,
     tunnel |-> <<>>, open |-> TRUE]

(***************************************************************************)
(* websocket.Hub at start: no observer session, nothing on h.broadcast,    *)
(* no Broadcast call under way.                                            *)
(***************************************************************************)
\* the observer sessions (Client) that may connect
Observers == {"o1", "o2"}
\* the goroutines that call Hub.Broadcast*
Publishers == {"p1", "p2"}

\* the goroutines that call Hub.ClientCount
Counters == {"k1"}

NoEvent == 0
\* json.Marshal(map[string]string{"type": "pong"})
Pong == -1
HubInit ==
    [clients |-> {},                                \* h.clients
     chan |-> <<>>,                                 \* h.broadcast
     send |-> [o \in Observers |-> <<>>],           \* client.send
     closed |-> [o \in Observers |-> FALSE],        \* close(client.send) ran
     closes |-> [o \in Observers |-> 0],            \* history: how often
     wr |-> [o \in Observers |-> "run"],            \* writePump: run, gone
     taken |-> 0,                                   \* events Run has dequeued
     joined |-> [o \in Observers |-> 0],            \* history: taken at register
     got |-> [o \in Observers |-> <<>>],            \* history: events written
                                                    \* to the connection
     session |-> [o \in Observers |-> "none"],      \* none, open, gone
     rd |-> [o \in Observers |-> "read"],           \* readPump: read, pong
     frames |-> 0,                                  \* frames readPump took
     mu |-> [w |-> {}, r |-> {}],                   \* who holds h.mu
     run |-> <<"select">>,                          \* where Run stands
     cnt |-> [k \in Counters |-> "idle"],           \* ClientCount calls
     pub |-> [p \in Publishers |-> [pc |-> "idle", ev |-> NoEvent]],
     calls |-> 0,                                   \* Broadcast calls begun
     returned |-> 0,                                \* Broadcast calls returned
     panicked |-> FALSE]                            \* close of a closed channel

(***************************************************************************)
(* main at start: nothing has run yet.                                     *)
(***************************************************************************)
NoChild == [state |-> "none", env |-> <<>>, signals |-> <<>>, code |-> 0]
NoManager ==
    [exists |-> FALSE,      \* process.New returned it
     started |-> FALSE,     \* m.started
     cmdEnv |-> <<>>,       \* m.cmd.Env
     envWrites |-> 0,       \* history: assignments to m.cmd.Env
     stdout |-> FALSE,      \* m.cmd.Stdout is set
     stderr |-> FALSE,      \* m.cmd.Stderr is set
     cancelled |-> FALSE]   \* m.cancel() ran: m.ctx is done
SupInit ==
    [phase |-> "boot",      \* where main stands
     env |-> <<>>,          \* os.Environ() of the tool
     port |-> 0,            \* cfg.Port
     trace |-> "none",      \* traces.status of the session's row
     mgr |-> NoManager,
     child |-> NoChild,
     spawned |-> 0,         \* history: child processes ever spawned
     starts |-> 0,          \* history: Start calls
     stops |-> 0,           \* history: Stop calls
     kills |-> 0,           \* history: Kill calls
     lastErr |-> "",        \* what the last Manager call returned
     interrupted |-> FALSE, \* main took a signal from sigChan
     signal |-> "none",     \* the signal the tool got
     killed |-> FALSE,      \* a signal ended the tool before signal.Notify
     exitCode |-> 0,        \* main's exitCode variable
     exited |-> FALSE,      \* os.Exit ran
     status |-> 0]          \* the exit status the tool's parent sees

(***************************************************************************)
(* Store.mu and the goroutines that call the Store directly.               *)
(***************************************************************************)
\* the goroutines that call the Store: handlers, the analyzer, API readers
Callers == {"c1", "c2"}
NoRet == [kind |-> "none"]
NoCall ==
    [op |-> "",             \* the Store method called
     arg |-> NoMsg,         \* its argument
     pc |-> "idle",         \* idle, lock (waiting for s.mu), held
     stage |-> 0,           \* which Store method of a composite call runs
     mode |-> "",           \* how s.mu is held: "w" or "r"
     conn |-> 0,            \* the connection of s.db its statement runs on
     must |-> {},           \* history: st.saved when the call began
     w0 |-> 0,              \* history: st.writes when the call began
     trace |-> "none",      \* local: the trace GetTrace returned
     msgs |-> <<>>,         \* local: what GetMessages returned
     ins |-> <<>>,          \* local: what GetInsights returned
     snaps |-> {},          \* history: what the Store held during an export
     ret |-> NoRet]         \* what the last call returned
StInit ==
    [mu |-> [w |-> {}, r |-> {}],   \* who holds s.mu, for writing or reading
     call |-> [c \in Callers |-> NoCall],
     conns |-> 1,                   \* connections s.db has opened
     calls |-> 0,                   \* history: Store calls begun
     writes |-> 0,                  \* history: write statements executed
     saved |-> {}]                  \* history: <<table, id>> of the rows
                                    \* whose Save returned nil

Init ==
    /\ clock = 0
    /\ messages = <<>>
    /\ insights = <<>>
    /\ agents = <<>>
    /\ broadcast = <<>>
    /\ methodCounts = [k \in {} |-> 0]
    /\ agentErrors = [k \in {} |-> 0]
    /\ requestTimes = [k \in {} |-> 0]
    /\ pc = [h \in Handlers |-> "idle"]
    /\ loc = [h \in Handlers |-> IdleLoc]
    /\ exch = <<>>
    /\ crashed = FALSE
    /\ hub = HubInit
    /\ sup = SupInit
    /\ st = StInit

(***************************************************************************)
(* Proxy.handleProxy (internal/proxy/interceptor.go, second file).         *)
(***************************************************************************)
\* IsConnect with the CONNECT check missing
IsConnect_never(r) == FALSE

\* r.Method == http.MethodConnect
IsConnect(r) == r.method = "CONNECT"

\* ShouldCapture for classified requests only
ShouldCapture_a2aOnly(r) == IsA2ARequest(r)

\* reqMsg != nil
ShouldCapture(r) == IsA2ARequest(r) \/ BodyLen(r.body) > 0

\* the handler returns: the caller has its response
Finish(h, reply) ==
    /\ exch' = [exch EXCEPT ![loc[h].xid].reply = reply, ![loc[h].xid].open = FALSE]
    /\ pc' = [pc EXCEPT ![h] = "idle"]
    /\ loc' = [loc EXCEPT ![h] = IdleLoc]

\* the CONNECT check, the target URL, ReadBody and ParseRequest
RecvRequest(h, Reqs, maxX) ==
    /\ ~crashed
    /\ pc[h] = "idle"
    /\ Len(exch) < maxX
    /\ \E r \in Reqs :
        LET x == Len(exch) + 1
            l == [IdleLoc EXCEPT !.xid = x, !.req = r]
        IN IF IsConnect(r)
           THEN /\ exch' = Append(exch, Exchange(r))
                /\ pc' = [pc EXCEPT ![h] = "connect"]
                /\ loc' = [loc EXCEPT ![h] = l]
           ELSE IF r.readErr
           THEN /\ exch' = Append(exch,
                      [Exchange(r) EXCEPT
                          !.reply = Reply(500, TextBody("Failed to read request body")),
                          !.open = FALSE])
                /\ UNCHANGED <<pc, loc>>
           ELSE IF ShouldCapture(r)
           THEN /\ exch' = Append(exch, [Exchange(r) EXCEPT !.captured = TRUE])
                /\ pc' = [pc EXCEPT ![h] = "saveReq"]
                /\ loc' = [loc EXCEPT ![h] =
                              [l EXCEPT !.captured = TRUE, !.cur = "request",
                                        !.reqMsg = ParseRequest(r, clock, x)]]
           ELSE /\ exch' = Append(exch, Exchange(r))
                /\ pc' = [pc EXCEPT ![h] = "upstream"]
                /\ loc' = [loc EXCEPT ![h] = [l EXCEPT !.startTime = clock]]
    /\ UNCHANGED <<clock, messages, insights, agents, broadcast, methodCounts,
                   agentErrors, requestTimes, crashed>>
    /\ UNCHANGED <<hub, sup, st>>

\* Store.SaveMessage: the id is set before the INSERT, whether or not it fails
SaveMessage(h, field, tag, Oks, next) ==
    \E ok \in Oks :
        LET m == [loc[h][field] EXCEPT !.id = Uuid(tag, loc[h].xid)]
        IN /\ messages' = IF ok THEN InsertRow(messages, m) ELSE messages
           /\ loc' = [loc EXCEPT ![h][field] = m]
           /\ pc' = [pc EXCEPT ![h] = next]

\* p.store.SaveMessage(reqMsg)
SaveRequest(h, Oks) ==
    /\ ~crashed
    /\ pc[h] = "saveReq"
    /\ SaveMessage(h, "reqMsg", "msg-req", Oks, "notifyReq")
    /\ UNCHANGED <<clock, insights, agents, broadcast, methodCounts,
                   agentErrors, requestTimes, exch, crashed>>
    /\ UNCHANGED <<hub, sup, st>>

\* what the handler does when onMessage(msg) returns with l its locals:
\* after the request, startTime := time.Now(); after the response, the
\* agent-card check
ReturnPc(l) ==
    IF l.cur = "request" THEN "upstream"
    ELSE IF l.up.kind = "ok" /\ ContainsAgentCardPath(l.req.url.path)
            /\ ParseAgentCard(l.up.body, l.req.url, clock, l.xid) # NoAgent
         THEN "saveAgent"
         ELSE "relay"
ReturnLoc(l) ==
    IF l.cur = "request" THEN [l EXCEPT !.startTime = clock]
    ELSE IF ReturnPc(l) = "saveAgent"
         THEN [l EXCEPT !.agent = ParseAgentCard(l.up.body, l.req.url, clock, l.xid)]
         ELSE l

\* AnalyzeMessage has its insights p: the save-and-broadcast loop, or return
Emit(h, l, p) ==
    IF p # <<>>
    THEN /\ pc' = [pc EXCEPT ![h] = "saveIns"]
         /\ loc' = [loc EXCEPT ![h] = [l EXCEPT !.pending = p]]
    ELSE /\ pc' = [pc EXCEPT ![h] = ReturnPc(l)]
         /\ loc' = [loc EXCEPT ![h] = ReturnLoc([l EXCEPT !.pending = <<>>])]

\* NotifyRequest without the broadcast: the request is never published
NotifyRequest_unpublished(h) ==
    /\ ~crashed
    /\ pc[h] = "notifyReq"
    /\ pc' = [pc EXCEPT ![h] = "countRd"]
    /\ UNCHANGED <<clock, messages, insights, agents, broadcast, methodCounts,
                   agentErrors, requestTimes, loc, exch, crashed>>
    /\ UNCHANGED <<hub, sup, st>>

\* onMessage(reqMsg): Hub.BroadcastMessage, then AnalyzeMessage begins
NotifyRequest(h) ==
    /\ ~crashed
    /\ pc[h] = "notifyReq"
    /\ broadcast' = Append(broadcast, MessageEvent(loc[h].reqMsg))
    /\ pc' = [pc EXCEPT ![h] = "countRd"]
    /\ UNCHANGED <<clock, messages, insights, agents, methodCounts,
                   agentErrors, requestTimes, loc, exch, crashed>>
    /\ UNCHANGED <<hub, sup, st>>

(***************************************************************************)
(* Analyzer.AnalyzeMessage, run by the handler's goroutine with no lock:   *)
(* each access to a map of the Analyzer is a step of its own.              *)
(***************************************************************************)
\* a.requestTimes[msg.ID] = msg.Timestamp, and the read of
\* a.methodCounts[msg.Method]++
AnalyzeCountRead(h) ==
    /\ ~crashed
    /\ pc[h] = "countRd"
    /\ requestTimes' = MapPut(requestTimes, loc[h].reqMsg.id, loc[h].reqMsg.ts)
    /\ loc' = [loc EXCEPT ![h].tmp = MapGet(methodCounts, loc[h].reqMsg.method)]
    /\ pc' = [pc EXCEPT ![h] = "countWr"]
    /\ UNCHANGED <<clock, messages, insights, agents, broadcast, methodCounts,
                   agentErrors, exch, crashed>>
    /\ UNCHANGED <<hub, sup, st>>

\* the write of a.methodCounts[msg.Method]++
AnalyzeCountWrite(h) ==
    /\ ~crashed
    /\ pc[h] = "countWr"
    /\ methodCounts' = MapPut(methodCounts, loc[h].reqMsg.method, loc[h].tmp + 1)
    /\ IF loc[h].reqMsg.method = ""
       THEN Emit(h, loc[h], <<>>)
       ELSE /\ pc' = [pc EXCEPT ![h] = "retryRd"]
            /\ loc' = loc
    /\ UNCHANGED <<clock, messages, insights, agents, broadcast, agentErrors,
                   requestTimes, exch, crashed>>
    /\ UNCHANGED <<hub, sup, st>>

\* checkRetryLoop(msg) for a request with a method: count := a.methodCounts[..]
AnalyzeRetryRead(h) ==
    /\ ~crashed
    /\ pc[h] = "retryRd"
    /\ Emit(h, loc[h],
            checkRetryLoop(loc[h].reqMsg,
                           MapGet(methodCounts, loc[h].reqMsg.method), clock))
    /\ UNCHANGED <<clock, messages, insights, agents, broadcast, methodCounts,
                   agentErrors, requestTimes, exch, crashed>>
    /\ UNCHANGED <<hub, sup, st>>

\* an AnalyzeMessage that checks for errors first
responseInsights_errorFirst(msg, counts, now) ==
    checkError(msg, now) \o checkSlowResponse(msg, now)
        \o checkProtocolViolation(msg, now)
        \o checkRetryLoop(msg, MapGet(counts, msg.method), now)

\* the insights of a response, in the order AnalyzeMessage appends them; a
\* response has no method, so checkRetryLoop returns before it reads counts
responseInsights(msg, counts, now) ==
    checkSlowResponse(msg, now) \o checkError(msg, now)
        \o checkProtocolViolation(msg, now)
        \o checkRetryLoop(msg, MapGet(counts, msg.method), now)

\* a.store.SaveInsight(insight); on an error the insight is not broadcast
SaveInsight(h, Oks) ==
    /\ ~crashed
    /\ pc[h] = "saveIns"
    /\ \E ok \in Oks :
        IF ok
        THEN /\ insights' = InsertRow(insights, Head(loc[h].pending))
             /\ pc' = [pc EXCEPT ![h] = "pubIns"]
             /\ loc' = loc
        ELSE /\ insights' = insights
             /\ Emit(h, loc[h], Tail(loc[h].pending))
    /\ UNCHANGED <<clock, messages, agents, broadcast, methodCounts,
                   agentErrors, requestTimes, exch, crashed>>
    /\ UNCHANGED <<hub, sup, st>>

\* a.onInsight(insight): Hub.BroadcastInsight
BroadcastInsight(h) ==
    /\ ~crashed
    /\ pc[h] = "pubIns"
    /\ broadcast' = Append(broadcast, InsightEvent(Head(loc[h].pending)))
    /\ Emit(h, loc[h], Tail(loc[h].pending))
    /\ UNCHANGED <<clock, messages, insights, agents, methodCounts,
                   agentErrors, requestTimes, exch, crashed>>
    /\ UNCHANGED <<hub, sup, st>>

\* SyntheticResponse correlated by the JSON-RPC id, as ParseResponse does
SyntheticResponse_rpcId(l, text, durationMs, now) ==
    [NoMsg EXCEPT !.ts = now, !.dir = "response", !.url = l.req.url,
                  !.err = text, !.dur = durationMs, !.reqId = l.reqMsg.reqId,
                  !.xid = l.xid]

\* the errMsg handleProxy builds when p.client.Do fails
SyntheticResponse(l, text, durationMs, now) ==
    [NoMsg EXCEPT !.ts = now, !.dir = "response", !.url = l.req.url,
                  !.err = text, !.dur = durationMs, !.reqId = l.reqMsg.id,
                  !.xid = l.xid]

\* http.NewRequest, p.client.Do, io.ReadAll, ParseResponse
Upstream(h, Ups) ==
    /\ ~crashed
    /\ pc[h] = "upstream"
    /\ \E u \in Ups :
        LET l == loc[h]
            now == clock + u.delay
            durationMs == (now - l.startTime) * TickMs
            msg == IF u.kind = "transport"
                   THEN SyntheticResponse(l, u.errText, durationMs, now)
                   ELSE ParseResponse(u, l.reqMsg, durationMs, now)
        IN /\ now <= MaxClock
           /\ clock' = now
           /\ exch' = [exch EXCEPT ![l.xid].up = u]
           /\ IF u.kind \in {"transport", "ok"} /\ l.captured
              THEN /\ pc' = [pc EXCEPT ![h] = "saveResp"]
                   /\ loc' = [loc EXCEPT ![h] =
                                [l EXCEPT !.up = u, !.cur = "response",
                                          !.respMsg = msg]]
              ELSE /\ pc' = [pc EXCEPT ![h] = "relay"]
                   /\ loc' = [loc EXCEPT ![h] = [l EXCEPT !.up = u]]
    /\ UNCHANGED <<messages, insights, agents, broadcast, methodCounts,
                   agentErrors, requestTimes, crashed>>
    /\ UNCHANGED <<hub, sup, st>>

\* p.store.SaveMessage(respMsg), p.store.SaveMessage(errMsg)
SaveResponse(h, Oks) ==
    /\ ~crashed
    /\ pc[h] = "saveResp"
    /\ SaveMessage(h, "respMsg", "msg-resp", Oks, "notifyResp")
    /\ UNCHANGED <<clock, insights, agents, broadcast, methodCounts,
                   agentErrors, requestTimes, exch, crashed>>
    /\ UNCHANGED <<hub, sup, st>>

\* onMessage(respMsg): Hub.BroadcastMessage, then AnalyzeMessage up to its
\* first access to a map
NotifyResponse(h) ==
    /\ ~crashed
    /\ pc[h] = "notifyResp"
    /\ broadcast' = Append(broadcast, MessageEvent(loc[h].respMsg))
    /\ IF IsErrorResponse(loc[h].respMsg)
       THEN /\ pc' = [pc EXCEPT ![h] = "errRd"]
            /\ loc' = loc
       ELSE Emit(h, loc[h], responseInsights(loc[h].respMsg, methodCounts, clock))
    /\ UNCHANGED <<clock, messages, insights, agents, methodCounts,
                   agentErrors, requestTimes, exch, crashed>>
    /\ UNCHANGED <<hub, sup, st>>

\* the read of a.agentErrors[msg.FromAgent]++
AnalyzeErrorRead(h) ==
    /\ ~crashed
    /\ pc[h] = "errRd"
    /\ loc' = [loc EXCEPT ![h].tmp = MapGet(agentErrors, loc[h].respMsg.from)]
    /\ pc' = [pc EXCEPT ![h] = "errWr"]
    /\ UNCHANGED <<clock, messages, insights, agents, broadcast, methodCounts,
                   agentErrors, requestTimes, exch, crashed>>
    /\ UNCHANGED <<hub, sup, st>>

\* the write of a.agentErrors[msg.FromAgent]++, and the rest of the rules
AnalyzeErrorWrite(h) ==
    /\ ~crashed
    /\ pc[h] = "errWr"
    /\ agentErrors' = MapPut(agentErrors, loc[h].respMsg.from, loc[h].tmp + 1)
    /\ Emit(h, loc[h], responseInsights(loc[h].respMsg, methodCounts, clock))
    /\ UNCHANGED <<clock, messages, insights, agents, broadcast, methodCounts,
                   requestTimes, exch, crashed>>
    /\ UNCHANGED <<hub, sup, st>>

\* p.store.SaveAgent(agent); its error is dropped
SaveAgent(h, Oks) ==
    /\ ~crashed
    /\ pc[h] = "saveAgent"
    /\ \E ok \in Oks :
        LET a == [loc[h].agent EXCEPT !.id = Uuid("agent", loc[h].xid)]
        IN /\ agents' = IF ok THEN UpsertAgent(agents, a) ELSE agents
           /\ loc' = [loc EXCEPT ![h].agent = a]
    /\ pc' = [pc EXCEPT ![h] = "pubAgent"]
    /\ UNCHANGED <<clock, messages, insights, broadcast, methodCounts,
                   agentErrors, requestTimes, exch, crashed>>
    /\ UNCHANGED <<hub, sup, st>>

\* p.onAgent(agent): Hub.BroadcastAgent
BroadcastAgent(h) ==
    /\ ~crashed
    /\ pc[h] = "pubAgent"
    /\ broadcast' = Append(broadcast, AgentEvent(loc[h].agent))
    /\ pc' = [pc EXCEPT ![h] = "relay"]
    /\ UNCHANGED <<clock, messages, insights, agents, methodCounts,
                   agentErrors, requestTimes, loc, exch, crashed>>
    /\ UNCHANGED <<hub, sup, st>>

\* RelayBody writing from the reader io.ReadAll has already drained
RelayBody_drained(respBody) == EmptyBody

\* w.Write(respBody): the bytes io.ReadAll returned
RelayBody(respBody) == respBody

\* what the caller is sent: http.Error on a failure, else the upstream status
\* and body
CallerResponse(up) ==
    CASE up.kind = "buildfail" -> Reply(500, TextBody("Failed to create request"))
      [] up.kind = "transport" -> Reply(502, TextBody("Proxy error"))
      [] up.kind = "readfail" -> Reply(500, TextBody("Failed to read response"))
      [] OTHER -> Reply(up.status, RelayBody(up.body))

Relay(h) ==
    /\ ~crashed
    /\ pc[h] = "relay"
    /\ Finish(h, CallerResponse(loc[h].up))
    /\ UNCHANGED <<clock, messages, insights, agents, broadcast, methodCounts,
                   agentErrors, requestTimes, crashed>>
    /\ UNCHANGED <<hub, sup, st>>

(***************************************************************************)
(* Proxy.handleConnect: the tunnel copies bytes and reads none of them.    *)
(***************************************************************************)
HandleConnect(h, Dials) ==
    /\ ~crashed
    /\ pc[h] = "connect"
    /\ \E d \in Dials :
        CASE d = "dialfail" ->
                Finish(h, Reply(503, TextBody("dial error")))
          [] d = "hijackfail" ->
                Finish(h, Reply(200, TextBody("hijack error")))
          [] OTHER ->
                /\ exch' = [exch EXCEPT ![loc[h].xid].reply = Reply(200, EmptyBody)]
                /\ pc' = [pc EXCEPT ![h] = "tunnel"]
                /\ loc' = loc
    /\ UNCHANGED <<clock, messages, insights, agents, broadcast, methodCounts,
                   agentErrors, requestTimes, crashed>>
    /\ UNCHANGED <<hub, sup, st>>

\* transfer: io.Copy moves a chunk from one side to the other
TunnelTransfer(h, Chunks) ==
    /\ ~crashed
    /\ pc[h] = "tunnel"
    /\ Len(exch[loc[h].xid].tunnel) < MaxTunnel
    /\ \E c \in Chunks :
        exch' = [exch EXCEPT ![loc[h].xid].tunnel = Append(@, c)]
    /\ UNCHANGED <<clock, messages, insights, agents, broadcast, methodCounts,
                   agentErrors, requestTimes, pc, loc, crashed>>
    /\ UNCHANGED <<hub, sup, st>>

\* either side closes: both transfer goroutines end
TunnelClose(h) ==
    /\ ~crashed
    /\ pc[h] = "tunnel"
    /\ Finish(h, exch[loc[h].xid].reply)
    /\ UNCHANGED <<clock, messages, insights, agents, broadcast, methodCounts,
                   agentErrors, requestTimes, crashed>>
    /\ UNCHANGED <<hub, sup, st>>

(***************************************************************************)
(* The Analyzer's maps are plain Go maps.  Two goroutines inside an access *)
(* to the same map, one of them writing, is a data race: an update is lost *)
(* (the write steps above) or the runtime ends the process with            *)
(* "fatal error: concurrent map writes".                                   *)
(***************************************************************************)
InCountAccess(h) == pc[h] \in {"countRd", "countWr", "retryRd"}
InErrorAccess(h) == pc[h] \in {"errRd", "errWr"}
MapRace ==
    \E h1, h2 \in Handlers :
        /\ h1 # h2
        /\ \/ pc[h1] \in {"countRd", "countWr"} /\ InCountAccess(h2)
           \/ pc[h1] = "errWr" /\ InErrorAccess(h2)

FatalMapRace ==
    /\ ~crashed
    /\ MapRace
    /\ crashed' = TRUE
    /\ UNCHANGED <<clock, messages, insights, agents, broadcast, methodCounts,
                   agentErrors, requestTimes, pc, loc, exch>>
    /\ UNCHANGED <<hub, sup, st>>

(***************************************************************************)
(* The steps of one handler goroutine, grouped by the part of handleProxy  *)
(* they belong to.  Oks is what a Store write may come to.                 *)
(***************************************************************************)
RequestSteps(h, Reqs, maxX, Oks) ==
    \/ RecvRequest(h, Reqs, maxX)
    \/ SaveRequest(h, Oks)
    \/ NotifyRequest(h)
    \/ AnalyzeCountRead(h)
    \/ AnalyzeCountWrite(h)
    \/ AnalyzeRetryRead(h)

UpstreamSteps(h, Ups) ==
    \/ Upstream(h, Ups)
    \/ Relay(h)

ResponseSteps(h, Oks) ==
    \/ SaveResponse(h, Oks)
    \/ NotifyResponse(h)

InsightSteps(h, Oks) ==
    \/ SaveInsight(h, Oks)
    \/ BroadcastInsight(h)

ErrorSteps(h) ==
    \/ AnalyzeErrorRead(h)
    \/ AnalyzeErrorWrite(h)

AgentSteps(h, Oks) ==
    \/ SaveAgent(h, Oks)
    \/ BroadcastAgent(h)

ConnectSteps(h, Ds, Cs) ==
    \/ HandleConnect(h, Ds)
    \/ TunnelTransfer(h, Cs)
    \/ TunnelClose(h)

(***************************************************************************)
(* The proxy specification: every kind of request handleProxy tells apart  *)
(* and every way the upstream call ends, two handler goroutines serving    *)
(* one request each (one after the other, or interleaved), the Store       *)
(* healthy.                                                                *)
(***************************************************************************)
StoreHealthy == {TRUE}
MaxExchanges == Cardinality(Handlers)

PostRpc ==
    Request("POST", "application/json", "agent.local", "/",
            RpcCall("tasks/create", NumId(7)))
PlainGet == Request("GET", "", "agent.local", "/status", EmptyBody)
PostText == Request("POST", "text/plain", "agent.local", "/", GarbageBody)
GetCardJson ==
    Request("GET", "application/json", "agent.local",
            "/.well-known/agent.json", EmptyBody)
ConnectReq == Request("CONNECT", "", "agent.local:443", "", EmptyBody)
ConnectWithBody == Request("CONNECT", "", "agent.local:443", "", GarbageBody)
UnreadableReq == [PostRpc EXCEPT !.readErr = TRUE]

ProxyRequests ==
    {PostRpc, PlainGet, PostText, GetCardJson, ConnectReq, ConnectWithBody,
     UnreadableReq}

ProxyOutcomes ==
    {TransportFailure(0, "connection refused"), BuildFailure,
     BodyReadFailure(200, 0),
     Answer(200, "application/json", RpcResult(NumId(7)), 0),
     Answer(404, "text/plain", GarbageBody, 0)}

Dials == {"dialfail", "hijackfail", "ok"}
Chunks == {"tls-bytes", "json-rpc-post"}

Next ==
    \/ \E h \in Handlers :
        \/ RequestSteps(h, ProxyRequests, MaxExchanges, StoreHealthy)
        \/ UpstreamSteps(h, ProxyOutcomes)
        \/ ResponseSteps(h, StoreHealthy)
        \/ InsightSteps(h, StoreHealthy)
        \/ ErrorSteps(h)
        \/ AgentSteps(h, StoreHealthy)
        \/ ConnectSteps(h, Dials, Chunks)
    \/ FatalMapRace

Spec == Init /\ [][Next]_vars

(***************************************************************************)
(* The retry-loop specification: a caller repeating one JSON-RPC method    *)
(* against an upstream that breaks off in the middle of its answer, its    *)
(* requests served by the two handler goroutines.  The steps these inputs  *)
(* cannot reach are left out.                                              *)
(***************************************************************************)
RetryRequests == {PostRpc}
RetryOutcomes == {BodyReadFailure(200, 0)}

NextRetry ==
    \/ \E h \in Handlers :
        \/ RequestSteps(h, RetryRequests, MaxRetryExchanges, StoreHealthy)
        \/ UpstreamSteps(h, RetryOutcomes)
        \/ InsightSteps(h, StoreHealthy)
    \/ FatalMapRace

SpecRetry == Init /\ [][NextRetry]_vars

(***************************************************************************)
(* The slow-response specification: upstream answers after every delay the *)
(* clock allows, so durations fall below, on and above the threshold.      *)
(***************************************************************************)
SlowOutcomes ==
    {Answer(200, "application/json", RpcResult(NumId(7)), d) : d \in 0..MaxClock}

NextSlow ==
    \/ \E h \in Handlers :
        \/ RequestSteps(h, RetryRequests, MaxExchanges, StoreHealthy)
        \/ UpstreamSteps(h, SlowOutcomes)
        \/ ResponseSteps(h, StoreHealthy)
        \/ InsightSteps(h, StoreHealthy)
    \/ FatalMapRace

SpecSlow == Init /\ [][NextSlow]_vars

(***************************************************************************)
(* The protocol specification: response bodies of every shape the          *)
(* protocol_violation rule tells apart under a 2xx status, and under a     *)
(* 4xx status the JSON objects that carry no "id".                         *)
(***************************************************************************)
ProtocolBodies ==
    {EmptyBody, GarbageBody, NullBody, ArrayBody}
        \cup {ObjectBody(K) : K \in SUBSET {"jsonrpc", "id", "result"}}
ProtocolOutcomes ==
    {Answer(200, "application/json", b, 0) : b \in ProtocolBodies}
        \cup {Answer(404, "application/json", ObjectBody(K), 0) :
                K \in SUBSET {"jsonrpc", "result"}}

NextProtocol ==
    \E h \in Handlers :
        \/ RequestSteps(h, RetryRequests, MaxAnalyzed, StoreHealthy)
        \/ UpstreamSteps(h, ProtocolOutcomes)
        \/ ResponseSteps(h, StoreHealthy)
        \/ InsightSteps(h, StoreHealthy)
        \/ ErrorSteps(h)

SpecProtocol == Init /\ [][NextProtocol]_vars

(***************************************************************************)
(* Vocabulary of the properties.  x is an exchange: the x-th request the   *)
(* proxy received.                                                         *)
(***************************************************************************)
RequestRows(x) ==
    {i \in DOMAIN messages :
        messages[i].dir = "request" /\ messages[i].xid = x}
ResponseRows(x) ==
    {i \in DOMAIN messages :
        messages[i].dir = "response" /\ messages[i].xid = x}
RequestEvents(x) ==
    {i \in DOMAIN broadcast :
        /\ broadcast[i].type = "message"
        /\ broadcast[i].dir = "request"
        /\ broadcast[i].xid = x}
ResponseEvents(x) ==
    {i \in DOMAIN broadcast :
        /\ broadcast[i].type = "message"
        /\ broadcast[i].dir = "response"
        /\ broadcast[i].xid = x}
InsightRows(x, category) ==
    {i \in DOMAIN insights :
        insights[i].xid = x /\ insights[i].category = category}
InsightEvents(x, category) ==
    {i \in DOMAIN broadcast :
        /\ broadcast[i].type = "insight"
        /\ broadcast[i].dir = category
        /\ broadcast[i].xid = x}

\* the handler of exchange x has returned
Returned(x) == ~exch[x].open
NonConnect(x) == exch[x].req.method # "CONNECT"
\* the request of exchange x is classified A2A or has a body
A2AOrHasBody(x) == IsA2ARequest(exch[x].req) \/ exch[x].req.body.kind # "empty"
\* the handler of exchange x stands at the upstream call, or is past it
UpstreamReached(x) ==
    \/ exch[x].up.kind # "none"
    \/ \E h \in Handlers : loc[h].xid = x /\ pc[h] = "upstream"

(***************************************************************************)
(* C1.  Every persisted response Message has a non-empty request_id that   *)
(* is the id of exactly one request Message persisted before it, whose     *)
(* timestamp is not later than the response's.                             *)
(***************************************************************************)
C1_ResponseCorrelatesToRequest ==
    \A j \in DOMAIN messages :
        messages[j].dir = "response" =>
            /\ messages[j].reqId # ""
            /\ Cardinality({i \in 1..(j - 1) :
                    /\ messages[i].dir = "request"
                    /\ messages[i].id = messages[j].reqId
                    /\ messages[i].ts <= messages[j].ts}) = 1

SyntheticPersisted(x) ==
    /\ Cardinality(RequestRows(x)) = 1
    /\ Cardinality(ResponseRows(x)) = 1
    /\ Cardinality(ResponseEvents(x)) = 1
    /\ \A j \in ResponseRows(x) :
        /\ messages[j].status = 0
        /\ messages[j].err # ""
        /\ \A i \in RequestRows(x) : messages[j].reqId = messages[i].id
        /\ \A k \in ResponseEvents(x) : broadcast[k].id = messages[j].id

TransportFailed(x) ==
    NonConnect(x) /\ exch[x].up.kind = "transport" /\ Returned(x)

C4_BodyRelayedUnchanged ==
    \A x \in DOMAIN exch :
        NonConnect(x) /\ exch[x].up.kind = "ok" /\ Returned(x) =>
            exch[x].reply.sent /\ exch[x].reply.body = exch[x].up.body

\* a captured exchange with an insight and an uncaptured one, both relayed
C4_Witness ==
    \E x, y \in DOMAIN exch :
        /\ exch[x].up.kind = "ok" /\ Returned(x) /\ NonConnect(x)
        /\ exch[x].up.body.kind # "empty"
        /\ ResponseEvents(x) # {}
        /\ \E i \in DOMAIN insights : insights[i].xid = x
        /\ exch[y].up.kind = "ok" /\ Returned(y) /\ NonConnect(y)
        /\ RequestRows(y) = {}

(***************************************************************************)
(* C5, as stated.  For every non-CONNECT request whose body was read, the  *)
(* request Message is persisted and published before the upstream request  *)
(* is issued.                                                              *)
(***************************************************************************)
RequestCaptured(x) ==
    Cardinality(RequestRows(x)) = 1 /\ Cardinality(RequestEvents(x)) = 1

C6_ConnectLeavesNoTrace ==
    \A x \in DOMAIN exch :
        exch[x].req.method = "CONNECT" =>
            /\ \A i \in DOMAIN messages : messages[i].xid # x
            /\ \A i \in DOMAIN insights : insights[i].xid # x
            /\ \A i \in DOMAIN agents : agents[i].xid # x
            /\ \A i \in DOMAIN broadcast : broadcast[i].xid # x

\* one tunnel that carried a JSON-RPC POST and closed, one dial that failed,
\* the first CONNECT carrying a body
C6_Witness ==
    \E x, y \in DOMAIN exch :
        /\ exch[x].req.method = "CONNECT" /\ exch[x].req.body.kind # "empty"
        /\ Returned(x) /\ exch[x].tunnel = << "json-rpc-post" >>
        /\ exch[y].req.method = "CONNECT" /\ Returned(y)
        /\ exch[y].reply.status = 503

(***************************************************************************)
(* C7.  A retry_loop insight is emitted exactly when the number of         *)
(* Messages seen with a non-empty method reaches a positive multiple of    *)
(* five: one insight for each such occurrence, carrying the method and     *)
(* the count, and none otherwise.                                          *)
(***************************************************************************)
Quiescent == ~crashed /\ \A h \in Handlers : pc[h] = "idle"
MethodsSeen == {messages[i].method : i \in DOMAIN messages} \ {""}
Seen(m) == Cardinality({i \in DOMAIN messages : messages[i].method = m})
RetryInsights(m) ==
    {i \in DOMAIN insights :
        insights[i].category = "retry_loop" /\ insights[i].details.method = m}

C7_RetryLoopEveryFifth ==
    \A m \in MethodsSeen :
        /\ \A i, j \in RetryInsights(m) :
            insights[i].details.count = insights[j].details.count => i = j
        /\ \A i \in RetryInsights(m) :
            /\ insights[i].details.count > 0
            /\ insights[i].details.count % RetryEvery = 0
            /\ insights[i].details.count <= Seen(m)
        /\ Quiescent =>
            Cardinality(RetryInsights(m)) = Seen(m) \div RetryEvery

(***************************************************************************)
(* C8, as stated.  A response Message whose duration is at least the slow  *)
(* threshold has exactly one slow_response warning referring to it,        *)
(* persisted and published; one whose duration is below it has none.       *)
(***************************************************************************)
\* n insights of the category and severity refer to response row j of x
InsightsFor(x, j, category, severity, n) ==
    /\ Cardinality(InsightRows(x, category)) = n
    /\ Cardinality(InsightEvents(x, category)) = n
    /\ \A i \in InsightRows(x, category) :
        insights[i].msgId = messages[j].id /\ insights[i].type = severity

IsFailure(m) == m.dir = "response" /\ (m.err # "" \/ m.status >= 400)
SourceAgents ==
    {messages[i].from : i \in DOMAIN messages} \cup DOMAIN agentErrors
Failures(a) ==
    {i \in DOMAIN messages : IsFailure(messages[i]) /\ messages[i].from = a}

C9_ErrorInsightAndCounter ==
    /\ \A x \in DOMAIN exch :
        Returned(x) =>
            \A j \in ResponseRows(x) :
                InsightsFor(x, j, "error",
                            IF messages[j].status >= 400 /\ messages[j].status <= 499
                            THEN "warning" ELSE "error",
                            IF IsFailure(messages[j]) THEN 1 ELSE 0)
    /\ Quiescent =>
        \A a \in SourceAgents :
            MapGet(agentErrors, a) = Cardinality(Failures(a))

(***************************************************************************)
(* C10.  A response Message whose body is a JSON object has one            *)
(* protocol_violation warning iff the body lacks "jsonrpc", or lacks "id" *)
(* while the status is 2xx and the body has "result"; a response whose     *)
(* body is empty or does not parse has none.                               *)
(***************************************************************************)
ViolatesProtocol(m) ==
    \/ "jsonrpc" \notin m.body.keys
    \/ /\ "id" \notin m.body.keys
       /\ m.status \in 200..299
       /\ "result" \in m.body.keys

PublishCall(p) ==
    /\ ~hub.panicked
    /\ hub.pub[p].pc = "idle"
    /\ hub.calls < MaxPublished
    /\ hub' = [hub EXCEPT !.pub[p] = [pc |-> "send", ev |-> hub.calls + 1],
                          !.calls = @ + 1]
    /\ UNCHANGED <<proxyState, sup, st>>

\* h.broadcast <- data: waits while the channel is full, then returns
PublishSend(p) ==
    /\ ~hub.panicked
    /\ hub.pub[p].pc = "send"
    /\ Len(hub.chan) < BroadcastCap
    /\ hub' = [hub EXCEPT !.chan = Append(@, hub.pub[p].ev),
                          !.pub[p] = [pc |-> "idle", ev |-> NoEvent],
                          !.returned = @ + 1]
    /\ UNCHANGED <<proxyState, sup, st>>

\* HandleWebSocket: h.register <- client, taken by Run's register case
Register(o) ==
    /\ ~hub.panicked
    /\ hub.session[o] = "none"
    /\ hub' = [hub EXCEPT !.session[o] = "open", !.clients = @ \cup {o},
                          !.joined[o] = hub.taken]
    /\ UNCHANGED <<proxyState, sup, st>>

\* an unregister case that closes whatever it is sent
StillRegistered_always(clients, o) == TRUE

\* if _, ok := h.clients[client]; ok
StillRegistered(clients, o) == o \in clients

\* readPump ends: c.hub.unregister <- c, taken by Run's unregister case
Unregister(o) ==
    /\ ~hub.panicked
    /\ hub.session[o] = "open"
    /\ hub.rd[o] = "read"
    /\ IF StillRegistered(hub.clients, o)
       THEN hub' = [hub EXCEPT !.session[o] = "gone", !.clients = @ \ {o},
                               !.panicked = hub.closed[o],
                               !.closed[o] = TRUE, !.closes[o] = @ + 1]
       ELSE hub' = [hub EXCEPT !.session[o] = "gone"]
    /\ UNCHANGED <<proxyState, sup, st>>

\* writePump: takes a message from c.send and every message queued behind it
Drain(o) ==
    /\ ~hub.panicked
    /\ hub.send[o] # <<>>
    /\ hub.wr[o] = "run"
    /\ hub' = [hub EXCEPT !.send[o] = <<>>]
    /\ UNCHANGED <<proxyState, sup, st>>

\* len(client.send) < cap(client.send)
Room(buf) == Len(buf) < SendCap

\* OfferReady of a plain send, which waits for room
OfferReady_waiting(buf) == Room(buf)

\* select { case client.send <- message: default: ... } is always ready
OfferReady(buf) == TRUE

\* Dropped with the default branch doing nothing
Dropped_none(clients, send) == {}

\* the sessions the default branch closes and deletes
Dropped(clients, send) == {c \in clients : ~Room(send[c])}

\* Run's broadcast case: one message offered to every session
Dispatch ==
    /\ ~hub.panicked
    /\ hub.chan # <<>>
    /\ \A c \in hub.clients : OfferReady(hub.send[c])
    /\ LET message == Head(hub.chan)
           full == Dropped(hub.clients, hub.send)
       IN hub' = [hub EXCEPT
            !.chan = Tail(@),
            !.send = [c \in Observers |->
                        IF c \in hub.clients /\ Room(hub.send[c])
                        THEN Append(hub.send[c], message) ELSE hub.send[c]],
            !.closed = [c \in Observers |-> hub.closed[c] \/ c \in full],
            !.closes = [c \in Observers |->
                          hub.closes[c] + (IF c \in full THEN 1 ELSE 0)],
            !.clients = @ \ full,
            !.panicked = \E c \in full : hub.closed[c]]
    /\ UNCHANGED <<proxyState, sup, st>>

NextHub ==
    \/ \E p \in Publishers : PublishCall(p) \/ PublishSend(p)
    \/ \E o \in Observers : Register(o) \/ Unregister(o) \/ Drain(o)
    \/ Dispatch

SpecHub == Init /\ [][NextHub]_vars

\* Run is never starved, and a sender waiting on h.broadcast is served when
\* there is room (the runtime queues waiting senders first come, first served)
SpecHubLive ==
    /\ Init /\ [][NextHub]_vars
    /\ WF_vars(Dispatch)
    /\ \A p \in Publishers : SF_vars(PublishSend(p))

(***************************************************************************)
(* C11.  In every broadcast step of the Hub each session whose buffer has  *)
(* room receives the message and stays, each session whose buffer is full  *)
(* is closed and removed, and no session with a closed buffer is ever in   *)
(* the observer set.                                                       *)
(***************************************************************************)
C11_BroadcastStep ==
    /\ [](\A c \in hub.clients : ~hub.closed[c])
    /\ [][Len(hub'.chan) < Len(hub.chan) =>
            /\ ~hub'.panicked
            /\ \A c \in hub.clients :
                IF Len(hub.send[c]) < SendCap
                THEN /\ hub'.send[c] = Append(hub.send[c], Head(hub.chan))
                     /\ c \in hub'.clients
                     /\ ~hub'.closed[c]
                ELSE /\ hub'.closed[c]
                     /\ c \notin hub'.clients
                     /\ hub'.send[c] = hub.send[c]
            /\ \A c \in Observers \ hub.clients :
                /\ hub'.send[c] = hub.send[c]
                /\ hub'.closed[c] = hub.closed[c]
                /\ c \notin hub'.clients]_vars

\* one session dropped for a full buffer by a broadcast that another session
\* received
C11_Witness ==
    \E c, d \in Observers :
        /\ hub.session[c] = "open" /\ hub.closed[c] /\ c \notin hub.clients
        /\ Len(hub.send[c]) = SendCap
        /\ d \in hub.clients /\ hub.send[d] # <<>>
        /\ Head(hub.send[d]) \notin {hub.send[c][i] : i \in DOMAIN hub.send[c]}

(***************************************************************************)
(* C12.  Every Broadcast call a publisher makes eventually returns, even   *)
(* when observers never drain their buffers: the Hub's dispatch loop never *)
(* waits for an observer.                                                  *)
(***************************************************************************)
C12_BroadcastReturns ==
    \A p \in Publishers :
        (hub.pub[p].pc = "send") ~> (hub.pub[p].pc = "idle")

\* a publisher waiting on a full h.broadcast while a connected observer sits
\* on a full buffer
C12_Witness ==
    \E p \in Publishers, o \in Observers :
        /\ hub.pub[p].pc = "send"
        /\ Len(hub.chan) = BroadcastCap
        /\ o \in hub.clients
        /\ Len(hub.send[o]) = SendCap

(***************************************************************************)
(* C13.  The proxy never waits for analysis: the goroutine that serves an  *)
(* exchange hands the Message over and goes on to the upstream call or     *)
(* the relay; it never runs the analyzer's rules, Store writes or insight  *)
(* broadcasts itself while its caller is still to be answered.             *)
(***************************************************************************)
InAnalyzeMessage(h) ==
    pc[h] \in {"countRd", "countWr", "retryRd", "errRd", "errWr", "saveIns",
               "pubIns"}

C13_ProxyNeverWaitsForAnalysis ==
    \A h \in Handlers :
        loc[h].xid \in DOMAIN exch /\ exch[loc[h].xid].open =>
            ~InAnalyzeMessage(h)

(***************************************************************************)
(* process.Manager (internal/process/manager.go) and the child process.    *)
(* An environment is a sequence of entries KEY=value.                      *)
(***************************************************************************)
Entry(key, value) == [key |-> key, value |-> value]

\* fmt.Sprintf("http://127.0.0.1:%d", m.proxyPort)
ProxyURL(port) == "http://127.0.0.1:" \o ToString(port)

\* the map proxyState of buildEnv
proxyVars(port) ==
    [k \in {"HTTP_PROXY", "http_proxy", "HTTPS_PROXY", "https_proxy",
            "NO_PROXY", "no_proxy", "A2A_PROXY", "A2A_TRACE", "A2A_TRACE_UI"} |->
        CASE k \in {"NO_PROXY", "no_proxy"} -> ""
          [] k = "A2A_TRACE" -> "1"
          [] k = "A2A_TRACE_UI" -> ProxyURL(port) \o "/ui"
          [] OTHER -> ProxyURL(port)]

\* the orders in which range proxyState may visit the keys: Go leaves the
\* order open, the model takes one order and its reverse
Reverse(q) == [i \in 1..Len(q) |-> q[Len(q) + 1 - i]]
KeyOrder ==
    << "HTTP_PROXY", "http_proxy", "HTTPS_PROXY", "https_proxy", "NO_PROXY",
       "no_proxy", "A2A_PROXY", "A2A_TRACE", "A2A_TRACE_UI" >>
RangeOrders == {KeyOrder, Reverse(KeyOrder)}

IsProxyVar(e, port) == e.key \in DOMAIN proxyVars(port)

\* buildEnv appending to the inherited environment as it is
buildEnv_unfiltered(env, port, order) ==
    env \o [i \in 1..Len(order) |-> Entry(order[i], proxyVars(port)[order[i]])]

buildEnv(env, port, order) ==
    SelectSeq(env, LAMBDA e : ~IsProxyVar(e, port))
        \o [i \in 1..Len(order) |-> Entry(order[i], proxyVars(port)[order[i]])]

\* a manager that forgets it has started
AlreadyStarted_never(s) == FALSE

\* if m.started
AlreadyStarted(s) == s.mgr.started

\* Manager.Start on the state s; outcome is what the operating system does:
\* "pipefail" (os.Pipe fails), "spawnfail" (cmd.Start fails) or "ok"
Start(s, outcome, order) ==
    LET t == [s EXCEPT !.starts = @ + 1] IN
    IF AlreadyStarted(s)
    THEN [t EXCEPT !.lastErr = "process already started"]
    ELSE LET u == [t EXCEPT !.mgr.cmdEnv = buildEnv(s.env, s.port, order),
                            !.mgr.envWrites = @ + 1]
         IN IF u.mgr.stdout \/ outcome = "pipefail"
            THEN [u EXCEPT !.lastErr = "failed to create stdout pipe"]
            ELSE IF u.mgr.stderr
            THEN [u EXCEPT !.mgr.stdout = TRUE,
                           !.lastErr = "failed to create stderr pipe"]
            ELSE IF outcome = "spawnfail"
            THEN [u EXCEPT !.mgr.stdout = TRUE, !.mgr.stderr = TRUE,
                           !.lastErr = "failed to start process"]
            ELSE [u EXCEPT !.mgr.stdout = TRUE, !.mgr.stderr = TRUE,
                           !.mgr.started = TRUE,
                           !.child = [state |-> "running", env |-> u.mgr.cmdEnv,
                                      signals |-> <<>>, code |-> 0],
                           !.spawned = @ + 1,
                           !.lastErr = ""]

\* m.cmd.Process != nil
HasProcess(s) == s.child.state # "none"

\* a signal sent to the child: it arrives while the child runs
Signalled(s, sig, by) ==
    IF s.child.state = "running"
    THEN [s EXCEPT !.child.signals = Append(@, [sig |-> sig, by |-> by])]
    ELSE s

\* a Stop that sends SIGTERM and leaves the context alone
Stop_termOnly(s) ==
    LET t == [s EXCEPT !.stops = @ + 1, !.lastErr = ""] IN
    IF ~HasProcess(s) THEN t ELSE Signalled(t, "TERM", "Stop")

\* Manager.Stop: m.cancel(), then SIGTERM
Stop(s) ==
    LET t == [s EXCEPT !.stops = @ + 1, !.lastErr = ""] IN
    IF ~HasProcess(s) THEN t
    ELSE Signalled([t EXCEPT !.mgr.cancelled = TRUE], "TERM", "Stop")

\* Manager.Kill
Kill(s) ==
    LET t == [s EXCEPT !.kills = @ + 1, !.lastErr = ""] IN
    IF ~HasProcess(s) THEN t ELSE Signalled(t, "KILL", "Kill")

(***************************************************************************)
(* The manager's callers, the child and the context of exec.CommandContext *)
(***************************************************************************)
\* the entries a parent environment is drawn from
BaseEnv ==
    << Entry("PATH", "/usr/bin"),
       Entry("HTTP_PROXY", "http://corp:3128"),
       Entry("no_proxy", "localhost"),
       Entry("A2A_TRACE", "0"),
       Entry("ALL_PROXY", "socks5://corp:1080"),
       Entry("https_proxy", "http://127.0.0.1:8080") >>

\* the entries of q at the positions I, in q's order
Pick(q, I) ==
    LET F[i \in 0..Len(q)] ==
            IF i = 0 THEN <<>>
            ELSE IF i \in I THEN Append(F[i - 1], q[i]) ELSE F[i - 1]
    IN F[Len(q)]

\* the parent environments: none, one or two of the entries, or all of them
ParentEnvs ==
    {Pick(BaseEnv, I) :
        I \in {J \in SUBSET (1..Len(BaseEnv)) :
                  Cardinality(J) <= 2 \/ J = 1..Len(BaseEnv)}}
Ports == {8080, 9090}
StartOutcomes == {"pipefail", "spawnfail", "ok"}
\* exit codes a child ends with by itself
ExitCodes == {0, 3}
\* ExitError.ExitCode() of a child that a signal ended
SignalExit == -1

\* the tool comes up: os.Environ() and the parsed --port
Boot(env, port) ==
    /\ sup.phase = "boot"
    /\ sup' = [sup EXCEPT !.phase = "parsed", !.env = env, !.port = port]
    /\ UNCHANGED <<proxyState, hub, st>>

\* process.New with a command
New(s) == [s EXCEPT !.mgr.exists = TRUE]

ApiNew ==
    /\ sup.phase = "parsed"
    /\ sup' = [New(sup) EXCEPT !.phase = "api"]
    /\ UNCHANGED <<proxyState, hub, st>>

\* a call of Manager.Start by some goroutine; the mutex makes it one step
ApiStart(outcome, order) ==
    /\ sup.phase = "api"
    /\ sup.starts < MaxStarts
    /\ sup' = Start(sup, outcome, order)
    /\ UNCHANGED <<proxyState, hub, st>>

ApiStop ==
    /\ sup.phase = "api"
    /\ sup.stops < MaxStops
    /\ sup' = Stop(sup)
    /\ UNCHANGED <<proxyState, hub, st>>

ApiKill ==
    /\ sup.phase = "api"
    /\ sup.kills = 0
    /\ sup' = Kill(sup)
    /\ UNCHANGED <<proxyState, hub, st>>

\* os/exec watching the context of exec.CommandContext: once the context is
\* done it kills the process
CtxKill ==
    /\ sup.mgr.cancelled
    /\ sup.child.state = "running"
    /\ \A i \in 1..Len(sup.child.signals) : sup.child.signals[i].by # "ctx"
    /\ sup' = Signalled(sup, "KILL", "ctx")
    /\ UNCHANGED <<proxyState, hub, st>>

\* the child ends by itself
ChildExit(code) ==
    /\ sup.child.state = "running"
    /\ sup' = [sup EXCEPT !.child.state = "exited", !.child.code = code]
    /\ UNCHANGED <<proxyState, hub, st>>

\* a delivered signal ends the child
ChildSignalExit ==
    /\ sup.child.state = "running"
    /\ sup.child.signals # <<>>
    /\ sup' = [sup EXCEPT !.child.state = "exited", !.child.code = SignalExit]
    /\ UNCHANGED <<proxyState, hub, st>>

NextManager ==
    \/ \E env \in ParentEnvs, port \in Ports : Boot(env, port)
    \/ ApiNew
    \/ \E o \in StartOutcomes, order \in RangeOrders : ApiStart(o, order)
    \/ ApiStop
    \/ ApiKill
    \/ CtxKill
    \/ \E code \in ExitCodes : ChildExit(code)
    \/ ChildSignalExit

SpecManager == Init /\ [][NextManager]_vars

(***************************************************************************)
(* Properties of the child environment                                     *)
(***************************************************************************)
EntriesOf(env, k) == SelectSeq(env, LAMBDA e : e.key = k)
Url(port) == "http://127.0.0.1:" \o ToString(port)
HttpProxyNames == {"HTTP_PROXY", "http_proxy", "HTTPS_PROXY", "https_proxy"}
NoProxyNames == {"NO_PROXY", "no_proxy"}
ToolNames == {"A2A_PROXY", "A2A_TRACE", "A2A_TRACE_UI"}
\* the environments the manager has built: m.cmd.Env and the child's own
BuiltEnvs ==
    (IF sup.mgr.envWrites > 0 THEN {sup.mgr.cmdEnv} ELSE {})
        \cup (IF sup.child.state # "none" THEN {sup.child.env} ELSE {})
Inherited(parent, env, names) ==
    SelectSeq(env, LAMBDA e : e.key \notin names)
        = SelectSeq(parent, LAMBDA e : e.key \notin names)

C15_NeverStartsTwice ==
    /\ [](sup.spawned <= 1)
    /\ [][(sup.mgr.started /\ sup'.starts = sup.starts + 1)
            => /\ sup'.lastErr # ""
               /\ sup'.mgr = sup.mgr
               /\ sup'.child = sup.child
               /\ sup'.spawned = sup.spawned]_vars

\* Start was called again while the child of an earlier Start runs
C15_Witness ==
    /\ sup.starts >= 2
    /\ sup.spawned = 1
    /\ sup.child.state = "running"
    /\ sup.lastErr = "process already started"

\* the signals the manager's own shutdown path has sent the child
ShutdownSignals ==
    {sup.child.signals[i] : i \in 1..Len(sup.child.signals)}
        \ {[sig |-> "KILL", by |-> "Kill"]}

\* C16: Stop sends the graceful signal first, and the child is killed
\* forcibly only after a second stop request (the program has no stop
\* timeout), never as part of the first Stop.
C16_KillOnlyAfterSecondStop ==
    (\E g \in ShutdownSignals : g.sig = "KILL") => sup.stops >= 2

(***************************************************************************)
(* main (cmd/a2a-trace/main.go): start-up, supervision of the child, exit  *)
(***************************************************************************)
Signals == {"INT", "TERM"}
Signo(sig) == IF sig = "INT" THEN 2 ELSE 15

\* the status the tool's parent sees after os.Exit(code)
ExitStatus(code) == code % 256

\* os.Exit(code)
Exit(s, code) ==
    [s EXCEPT !.phase = "exited", !.exited = TRUE, !.status = ExitStatus(code)]

\* cli.PrintError and os.Exit(1)
Fatal(s, err) == Exit([s EXCEPT !.lastErr = err], 1)

\* cli.ParseArgs returns an error
BootFail ==
    /\ sup.phase = "boot"
    /\ sup' = Fatal(sup, "usage")
    /\ UNCHANGED <<proxyState, hub, st>>

\* store.New
OpenStore(ok) ==
    /\ sup.phase = "parsed"
    /\ sup' = IF ok THEN [sup EXCEPT !.phase = "store"]
                    ELSE Fatal(sup, "Failed to initialize database")
    /\ UNCHANGED <<proxyState, hub, st>>

\* Store.CreateTrace: the row starts with status "running"
CreateTrace(ok) ==
    /\ sup.phase = "store"
    /\ sup' = IF ok THEN [sup EXCEPT !.phase = "trace", !.trace = "running"]
                    ELSE Fatal(sup, "Failed to create trace")
    /\ UNCHANGED <<proxyState, hub, st>>

\* process.New: cfg.Command is not empty once ParseArgs succeeded
MainNew ==
    /\ sup.phase = "trace"
    /\ sup' = [New(sup) EXCEPT !.phase = "mgr"]
    /\ UNCHANGED <<proxyState, hub, st>>

\* procMgr.Start
MainStart(outcome, order) ==
    /\ sup.phase = "mgr"
    /\ LET t == Start(sup, outcome, order) IN
       sup' = IF t.lastErr = "" THEN [t EXCEPT !.phase = "started"]
                                ELSE Fatal(t, t.lastErr)
    /\ UNCHANGED <<proxyState, hub, st>>

\* signal.Notify and the goroutine that calls procMgr.Wait
Watch ==
    /\ sup.phase = "started"
    /\ sup' = [sup EXCEPT !.phase = "wait"]
    /\ UNCHANGED <<proxyState, hub, st>>

\* SIGINT or SIGTERM before signal.Notify: the default action ends the tool
EarlySignal(sig) ==
    /\ sup.phase \in {"parsed", "store", "trace", "mgr", "started"}
    /\ sup' = [sup EXCEPT !.phase = "exited", !.exited = TRUE, !.killed = TRUE,
                          !.signal = sig, !.status = 128 + Signo(sig)]
    /\ UNCHANGED <<proxyState, hub, st>>

\* case sig := <-sigChan: procMgr.Stop(), then <-done
MainSignal(sig) ==
    /\ sup.phase = "wait"
    /\ sup' = [Stop(sup) EXCEPT !.phase = "stopping", !.interrupted = TRUE,
                                !.signal = sig]
    /\ UNCHANGED <<proxyState, hub, st>>

\* procMgr.Wait returns the child's code, the goroutine closes done
WaitDone ==
    /\ sup.phase \in {"wait", "stopping"}
    /\ sup.child.state = "exited"
    /\ sup' = [sup EXCEPT !.phase = "finish", !.exitCode = sup.child.code]
    /\ UNCHANGED <<proxyState, hub, st>>

\* an UpdateTraceStatus that writes nothing
UpdateTraceStatus_lost(s, status, ok) == s

\* Store.UpdateTraceStatus
UpdateTraceStatus(s, status, ok) ==
    IF ok THEN [s EXCEPT !.trace = status] ELSE s

\* dataStore.UpdateTraceStatus(trace.ID, "completed"), its error dropped
Complete(ok) ==
    /\ sup.phase = "finish"
    /\ sup' = [UpdateTraceStatus(sup, "completed", ok) EXCEPT !.phase = "summary"]
    /\ UNCHANGED <<proxyState, hub, st>>

\* os.Exit(exitCode)
MainExit ==
    /\ sup.phase = "summary"
    /\ sup' = Exit(sup, sup.exitCode)
    /\ UNCHANGED <<proxyState, hub, st>>

NextMain ==
    \/ \E env \in ParentEnvs, port \in Ports : Boot(env, port)
    \/ BootFail
    \/ \E ok \in BOOLEAN : OpenStore(ok)
    \/ \E ok \in BOOLEAN : CreateTrace(ok)
    \/ MainNew
    \/ \E o \in StartOutcomes, order \in RangeOrders : MainStart(o, order)
    \/ Watch
    \/ \E sig \in Signals : EarlySignal(sig)
    \/ \E sig \in Signals : MainSignal(sig)
    \/ CtxKill
    \/ \E code \in ExitCodes : ChildExit(code)
    \/ ChildSignalExit
    \/ WaitDone
    \/ \E ok \in StoreHealthy : Complete(ok)
    \/ MainExit

SpecMain == Init /\ [][NextMain]_vars

(***************************************************************************)
(* Properties of the tool's exit and of the trace status                   *)
(***************************************************************************)
StartupFailed == sup.exited /\ ~sup.killed /\ sup.lastErr # ""
ChildEndedNormally == sup.child.state = "exited" /\ sup.child.code \in ExitCodes

\* C17: once the tool has exited, its exit status is the child's exit code
\* when the child ended normally and no signal interrupted the run, 1 when
\* start-up failed, and 128 + the signal's number (130 for SIGINT) when a
\* terminating signal interrupted the run.
C17_ExitCodes ==
    sup.exited =>
        /\ StartupFailed => sup.status = 1
        /\ (~StartupFailed /\ sup.signal = "none" /\ ChildEndedNormally)
               => sup.status = sup.child.code
        /\ sup.signal # "none" => sup.status = 128 + Signo(sup.signal)

GetCardPlain ==
    Request("GET", "", "agent.local", "/.well-known/agent.json", EmptyBody)
GetCardWithBody ==
    Request("GET", "", "agent.local", "/.well-known/agent.json", GarbageBody)
AgentRequests == {GetCardJson, GetCardPlain, GetCardWithBody}

BobCard == CardBody("Bob", "1.0", "greet")
AgentOutcomes ==
    {Answer(200, "application/json", BobCard, 0),
     Answer(404, "application/json", ObjectBody({"error"}), 0),
     Answer(500, "application/json", BobCard, 0),
     Answer(200, "text/html", GarbageBody, 0)}

NextAgent ==
    \/ \E h \in Handlers :
        \/ RecvRequest(h, AgentRequests, MaxAnalyzed)
        \/ SaveRequest(h, StoreHealthy)
        \/ NotifyRequest(h)
        \/ AnalyzeCountRead(h)
        \/ AnalyzeCountWrite(h)
        \/ UpstreamSteps(h, AgentOutcomes)
        \/ ResponseSteps(h, StoreHealthy)
        \/ InsightSteps(h, StoreHealthy)
        \/ ErrorSteps(h)
        \/ AgentSteps(h, StoreHealthy)

SpecAgent == Init /\ [][NextAgent]_vars

(***************************************************************************)
(* Properties of agent discovery                                           *)
(***************************************************************************)
Is2xx(status) == status \in 200..299
AgentRowsAt(url) == {i \in DOMAIN agents : agents[i].url = url}
AgentRowsOf(x) == {i \in DOMAIN agents : agents[i].xid = x}
AgentEventsOf(x) ==
    {i \in DOMAIN broadcast :
        broadcast[i].type = "agent" /\ broadcast[i].xid = x}
\* what GetAgents returns, as a set: every row of the agents table
AgentsListed == {agents[i] : i \in DOMAIN agents}
CardExchange(x) ==
    /\ exch[x].req.method = "GET"
    /\ exch[x].req.url.path = "/.well-known/agent.json"
CardAnswered(x) ==
    /\ exch[x].up.kind = "ok"
    /\ Is2xx(exch[x].up.status)
    /\ exch[x].up.body.kind = "object"
    /\ "name" \in exch[x].up.body.keys

\* C19: when a GET for /.well-known/agent.json, whatever its headers and
\* body, has been answered 2xx with an agent card and the exchange is over,
\* the Store holds exactly one Agent for that URL with the card's name,
\* description, version and skills, GetAgents returns it, and an agent event
\* was published.
C19_AgentDiscovered ==
    \A x \in DOMAIN exch :
        (Returned(x) /\ CardExchange(x) /\ CardAnswered(x))
            => /\ Cardinality(AgentRowsAt(exch[x].req.url)) = 1
               /\ \E a \in AgentsListed :
                    /\ a.url = exch[x].req.url
                    /\ a.name = exch[x].up.body.card.name
                    /\ a.description = exch[x].up.body.card.description
                    /\ a.version = exch[x].up.body.card.version
                    /\ a.skills = exch[x].up.body.card.skills
               /\ AgentEventsOf(x) # {}

\* C20: an exchange on the agent-card path whose upstream call failed, whose
\* upstream status is not 2xx or whose response body json.Unmarshal rejects
\* upserts no Agent and publishes no agent event.
C20_NoAgentWithoutCard ==
    \A x \in DOMAIN exch :
        (/\ ContainsAgentCardPath(exch[x].req.url.path)
         /\ \/ exch[x].up.kind # "ok"
            \/ ~Is2xx(exch[x].up.status)
            \/ ~UnmarshalOk(exch[x].up.body))
            => AgentRowsOf(x) = {} /\ AgentEventsOf(x) = {}

(***************************************************************************)
(* The parsing specification: one exchange; requests of every method,      *)
(* content type and path the classifier tells apart, JSON-RPC calls with a *)
(* numeric id, a string id and no id; upstream answers with a result, with *)
(* a JSON-RPC error under 200 and under 500, and with a plain 404.         *)
(***************************************************************************)
ClassifyMethods == {"GET", "POST", "PUT"}
ClassifyTypes ==
    {"", "text/plain", "application/json", "application/json; charset=utf-8"}
ClassifyPaths ==
    {"/", "/.well-known/agent.json", "/v1/.well-known/agent.json",
     "/.well-known/agent.json/x"}
ClassifyRequests ==
    {Request(m, ct, "agent.local", p, EmptyBody) :
        m \in ClassifyMethods, ct \in ClassifyTypes, p \in ClassifyPaths}

PostRpcNoId ==
    Request("POST", "application/json", "agent.local", "/",
            RpcCall("tasks/create", NoId))
PostRpcStrId ==
    Request("POST", "application/json", "agent.local", "/",
            RpcCall("tasks/create", StrId("abc")))
ParseRequests == ClassifyRequests \cup {PostRpc, PostRpcNoId, PostRpcStrId}

ParseOutcomes ==
    {Answer(200, "application/json", RpcResult(NumId(7)), 0),
     Answer(200, "application/json", RpcError(NumId(7), "boom"), 0),
     Answer(500, "application/json", RpcError(NumId(7), "boom"), 0),
     Answer(404, "text/plain", GarbageBody, 0)}

NextParse ==
    \E h \in Handlers :
        \/ RequestSteps(h, ParseRequests, MaxAnalyzed, StoreHealthy)
        \/ UpstreamSteps(h, ParseOutcomes)
        \/ ResponseSteps(h, StoreHealthy)
        \/ InsightSteps(h, StoreHealthy)
        \/ ErrorSteps(h)
        \/ AgentSteps(h, StoreHealthy)

SpecParse == Init /\ [][NextParse]_vars

(***************************************************************************)
(* Properties of the interceptor                                           *)
(***************************************************************************)
EndsInCardPath(path) ==
    path \in {"/.well-known/agent.json", "/v1/.well-known/agent.json"}
A2AByRule(r) ==
    \/ r.method = "POST" /\ ContainsJSON(r.ctype)
    \/ r.method = "GET" /\ EndsInCardPath(r.url.path)

\* C22: a request without a body is taken for A2A (and so captured) exactly
\* when it is a POST whose content type contains application/json or a GET
\* whose path ends in /.well-known/agent.json.
C22_ClassifierRule ==
    \A x \in DOMAIN exch :
        exch[x].req \in ClassifyRequests
            => (exch[x].captured <=> A2AByRule(exch[x].req))

HasRpcError(b) == b.kind = "object" /\ "error" \in b.keys
ErrorByRule(up) ==
    IF HasRpcError(up.body) THEN up.body.errmsg
    ELSE IF up.status >= 400 THEN StatusText(up.status)
    ELSE ""

\* C23: the error text of a persisted response Message that was parsed from
\* an upstream answer is the JSON-RPC error message when the body carries a
\* JSON-RPC error, otherwise the HTTP status text when the status is 400 or
\* more, otherwise empty.
C23_ErrorText ==
    \A i \in DOMAIN messages :
        (messages[i].dir = "response" /\ exch[messages[i].xid].up.kind = "ok")
            => messages[i].err = ErrorByRule(exch[messages[i].xid].up)

\* C24: the persisted request and response Messages of a JSON-RPC POST with
\* method m both carry the method m.
C24_ResponseCarriesMethod ==
    \A x \in DOMAIN exch :
        (exch[x].req.method = "POST" /\ exch[x].req.body.method # "")
            => \A i \in RequestRows(x) \cup ResponseRows(x) :
                   messages[i].method = exch[x].req.body.method

\* C25: the correlation identifier of every persisted request Message is
\* the Message's own id.
C25_RequestCorrelatesToItself ==
    \A i \in DOMAIN messages :
        messages[i].dir = "request" => messages[i].reqId = messages[i].id

(***************************************************************************)
(* Store calls (package store).  Every method takes s.mu first: Lock for   *)
(* the methods that write, RLock for the ones that read; ExportTrace and   *)
(* Analyzer.GetSummary call several methods, one after the other.  The     *)
(* model has one trace, so the trace_id filter keeps every row.            *)
(***************************************************************************)
WriteOps == {"SaveMessage", "SaveInsight", "SaveAgent", "CreateTrace"}

\* the Store methods a call goes through, in order
Sections(op) ==
    CASE op = "ExportTrace" -> << "GetTrace", "GetMessages", "GetInsights" >>
      [] op = "GetSummary" -> << "GetInsights", "GetMessages" >>
      [] OTHER -> << op >>
Section(k) == Sections(k.op)[k.stage]

\* s.mu.Lock() or s.mu.RLock()
NeedsWriteLock(op) == op \in WriteOps

\* ORDER BY <key> ASC; rows with one key stay in insertion order
InsertSorted(q, r, Key(_)) ==
    LET k == Cardinality({j \in 1..Len(q) : Key(q[j]) <= Key(r)})
    IN SubSeq(q, 1, k) \o << r >> \o SubSeq(q, k + 1, Len(q))
OrderBy(rows, Key(_)) ==
    LET F[i \in 0..Len(rows)] ==
            IF i = 0 THEN <<>> ELSE InsertSorted(F[i - 1], rows[i], Key)
    IN F[Len(rows)]
\* SELECT ... FROM messages WHERE trace_id = ? ORDER BY timestamp ASC
QueryMessages(rows) == OrderBy(rows, LAMBDA m : m.ts)
\* SELECT ... FROM insights WHERE trace_id = ? ORDER BY timestamp DESC
QueryInsights(rows) == Reverse(OrderBy(rows, LAMBDA i : i.ts))

\* ExportTrace's nil result
NoDocument == <<>>

\* json.MarshalIndent of the map with the keys trace, messages, insights:
\* an object, its keys sorted
ExportDocument(trace, msgs, ins) ==
    << <<"insights", ins>>, <<"messages", msgs>>, <<"trace", trace>> >>

\* Analyzer.GetSummary's figures
Responses(msgs) == SelectSeq(msgs, LAMBDA m : m.dir = "response")
IsErrorRow(m) == m.err # "" \/ m.status >= 400
TotalDuration(q) ==
    LET F[i \in 0..Len(q)] == IF i = 0 THEN 0 ELSE F[i - 1] + q[i].dur
    IN F[Len(q)]
AvgDuration(msgs) ==
    LET errorCount == Len(SelectSeq(Responses(msgs), IsErrorRow))
        successCount == Len(SelectSeq(Responses(msgs), LAMBDA m : ~IsErrorRow(m)))
        responseCount == successCount + errorCount
    IN IF responseCount > 0
       THEN TotalDuration(Responses(msgs)) \div responseCount ELSE 0
GetSummary(msgs, ins) ==
    [total_messages |-> Len(msgs),
     total_insights |-> Len(ins),
     error_count |-> Len(SelectSeq(Responses(msgs), IsErrorRow)),
     success_count |-> Len(SelectSeq(Responses(msgs), LAMBDA m : ~IsErrorRow(m))),
     avg_duration_ms |-> AvgDuration(msgs)]

\* the rows the callers save
MessageArgs ==
    {[NoMsg EXCEPT !.id = "m1", !.dir = "request", !.ts = 2],
     [NoMsg EXCEPT !.dir = "response", !.ts = 3, !.dur = 1500, !.status = 200],
     [NoMsg EXCEPT !.id = "m3", !.dir = "response", !.ts = 1, !.dur = 600,
                   !.status = 500, !.err = "Internal Server Error"],
     [NoMsg EXCEPT !.id = "m1", !.dir = "response", !.ts = 3, !.dur = 700,
                   !.status = 200]}
InsightArgs ==
    {[Insight(NoMsg, t, "error", NoDetails, n) EXCEPT !.id = "i1"] :
        t \in {"warning"}, n \in {1, 2}}
        \cup {[Insight([NoMsg EXCEPT !.id = "m1"], "info", "slow_response",
                         NoDetails, 1) EXCEPT !.id = ""]}
AgentUrl == [host |-> "agent.local", path |-> "/.well-known/agent.json"]
AgentArgs ==
    {[NoAgent EXCEPT !.url = AgentUrl, !.name = "Bob", !.version = "1.0",
                     !.skills = "greet", !.firstSeen = 1],
     [NoAgent EXCEPT !.url = AgentUrl, !.name = "Bobby", !.version = "2.0",
                     !.description = "greets", !.skills = "greet,wave",
                     !.firstSeen = 2],
     [NoAgent EXCEPT !.url = [AgentUrl EXCEPT !.host = "other.local"],
                     !.name = "Bob", !.version = "1.0", !.firstSeen = 2]}
StoreCalls ==
    ({"SaveMessage"} \X MessageArgs) \cup ({"SaveInsight"} \X InsightArgs)
        \cup ({"SaveAgent"} \X AgentArgs)
        \cup ({"CreateTrace", "GetMessages", "GetInsights", "ExportTrace",
               "GetSummary"} \X {NoMsg})

\* what the trace, messages and insights tables hold, as a document
StoreDocument ==
    ExportDocument(sup.trace, QueryMessages(messages), QueryInsights(insights))

\* everything a Store call leaves alone
aroundStore ==
    <<clock, broadcast, methodCounts, agentErrors, requestTimes, pc, loc, exch,
      crashed, hub>>

\* a goroutine calls a Store method
StoreBegin(c, call) ==
    /\ st.call[c].pc = "idle"
    /\ st.calls < MaxStoreCalls
    /\ call[1] = "CreateTrace" => sup.trace = "none"
    /\ st' = [st EXCEPT
                !.calls = @ + 1,
                !.call[c] = [NoCall EXCEPT !.op = call[1], !.arg = call[2],
                                          !.pc = "lock", !.stage = 1,
                                          !.must = st.saved, !.w0 = st.writes,
                                          !.snaps = IF call[1] = "ExportTrace"
                                                    THEN {StoreDocument}
                                                    ELSE {}]]
    /\ UNCHANGED <<aroundStore, messages, insights, agents, sup>>

\* sql.Open("sqlite", ":memory:"): s.db is a pool of connections, and each
\* connection to ":memory:" is a database of its own. migrate() created the
\* tables on the first one only.
HasSchema(n) == n = 1

\* the open connections no statement is running on
FreeConns == {n \in 1..st.conns : \A d \in Callers : st.call[d].conn # n}

\* s.db hands a statement a free connection, or opens one when all are busy
Conn(n) == IF FreeConns # {} THEN n \in FreeConns ELSE n = st.conns + 1

\* s.mu.Lock() or s.mu.RLock() returns, and s.db.Exec or s.db.Query gets
\* connection n
StoreAcquire(c, n) ==
    LET k == st.call[c] IN
    /\ k.pc = "lock"
    /\ Conn(n)
    /\ IF NeedsWriteLock(Section(k))
       THEN /\ st.mu.w = {} /\ st.mu.r = {}
            /\ st' = [st EXCEPT !.mu.w = {c}, !.call[c].pc = "held",
                                !.call[c].mode = "w", !.call[c].conn = n,
                                !.conns = IF n > @ THEN n ELSE @]
       ELSE /\ st.mu.w = {}
            /\ st' = [st EXCEPT !.mu.r = @ \cup {c}, !.call[c].pc = "held",
                                !.call[c].mode = "r", !.call[c].conn = n,
                                !.conns = IF n > @ THEN n ELSE @]
    /\ UNCHANGED <<aroundStore, messages, insights, agents, sup>>

\* the deferred Unlock or RUnlock, and the return with ret; the exports
\* under way have the tables as the statement left them in their history
Released(c, ret, ok, id) ==
    [st EXCEPT !.call = [d \in Callers |->
                           IF d # c /\ @[d].op = "ExportTrace" /\ @[d].pc # "idle"
                           THEN [@[d] EXCEPT !.snaps = @ \cup {StoreDocument'}]
                           ELSE @[d]],
               !.mu.w = @ \ {c}, !.mu.r = @ \ {c},
               !.writes = @ + 1,
               !.saved = IF ok THEN @ \cup {id} ELSE @,
               !.call[c].pc = "idle", !.call[c].mode = "",
               !.call[c].conn = 0,
               !.call[c].ret = ret]

\* if msg.ID == "" { msg.ID = uuid.New().String() }
WithId(row) ==
    IF row.id = "" THEN [row EXCEPT !.id = Uuid("row", st.writes + 1)] ELSE row

\* Store.SaveMessage: the INSERT, Unlock, return
StoreSaveMessage(c) ==
    LET k == st.call[c]
        row == WithId(k.arg)
        ok == HasSchema(k.conn) /\ ~HasId(messages, row.id)
    IN /\ k.pc = "held"
       /\ k.op = "SaveMessage"
       /\ messages' = IF HasSchema(k.conn) THEN InsertRow(messages, row)
                                           ELSE messages
       /\ UNCHANGED <<aroundStore, insights, agents, sup>>
       /\ st' = Released(c, [kind |-> "save", ok |-> ok, id |-> row.id], ok,
                         <<"messages", row.id>>)

\* Store.SaveInsight
StoreSaveInsight(c) ==
    LET k == st.call[c]
        row == WithId(k.arg)
        ok == HasSchema(k.conn) /\ ~HasId(insights, row.id)
    IN /\ k.pc = "held"
       /\ k.op = "SaveInsight"
       /\ insights' = IF HasSchema(k.conn) THEN InsertRow(insights, row)
                                           ELSE insights
       /\ UNCHANGED <<aroundStore, messages, agents, sup>>
       /\ st' = Released(c, [kind |-> "save", ok |-> ok, id |-> row.id], ok,
                         <<"insights", row.id>>)

\* Store.SaveAgent
StoreSaveAgent(c) ==
    LET k == st.call[c]
        row == WithId(k.arg)
    IN /\ k.pc = "held"
       /\ k.op = "SaveAgent"
       /\ agents' = IF HasSchema(k.conn) THEN UpsertAgent(agents, row)
                                         ELSE agents
       /\ UNCHANGED <<aroundStore, messages, insights, sup>>
       /\ st' = Released(c, [kind |-> "save", ok |-> HasSchema(k.conn),
                             id |-> row.id], FALSE, <<>>)

\* Store.CreateTrace: the row of the session, with status "running"
StoreCreateTrace(c) ==
    LET k == st.call[c] IN
    /\ k.pc = "held"
    /\ k.op = "CreateTrace"
    /\ sup' = IF HasSchema(k.conn) THEN [sup EXCEPT !.trace = "running"]
                                   ELSE sup
    /\ UNCHANGED <<aroundStore, messages, insights, agents>>
    /\ st' = Released(c, [kind |-> "save", ok |-> HasSchema(k.conn),
                          id |-> ""], FALSE, <<>>)

\* a reading method: the query, RUnlock, and either the next method of the
\* call or its return. On a connection without the tables the query fails:
\* ExportTrace returns the error at once, GetSummary drops it and goes on
\* with an empty list.
StoreRead(c) ==
    LET k == st.call[c]
        sec == Section(k)
        err == ~HasSchema(k.conn)
        trace == IF sec # "GetTrace" THEN k.trace
                 ELSE IF err THEN "none" ELSE sup.trace
        msgs == IF sec # "GetMessages" THEN k.msgs
                ELSE IF err THEN <<>> ELSE QueryMessages(messages)
        ins == IF sec # "GetInsights" THEN k.ins
               ELSE IF err THEN <<>> ELSE QueryInsights(insights)
        last == \/ k.stage = Len(Sections(k.op))
                \/ k.op = "ExportTrace" /\ err
        ret == CASE k.op = "GetMessages" ->
                        [kind |-> "messages", rows |-> msgs, err |-> err]
                 [] k.op = "GetInsights" ->
                        [kind |-> "insights", rows |-> ins, err |-> err]
                 [] k.op = "ExportTrace" ->
                        [kind |-> "export", err |-> err,
                         doc |-> IF err THEN NoDocument
                                 ELSE ExportDocument(trace, msgs, ins),
                         w0 |-> k.w0, w1 |-> st.writes]
                 [] OTHER ->
                        [kind |-> "summary", sum |-> GetSummary(msgs, ins),
                         msgs |-> msgs, persisted |-> messages]
    IN /\ k.pc = "held"
       /\ k.op \notin WriteOps
       /\ st' = IF ~last
                THEN [st EXCEPT !.mu.r = @ \ {c}, !.mu.w = @ \ {c},
                                !.call[c].pc = "lock", !.call[c].mode = "",
                                !.call[c].conn = 0,
                                !.call[c].stage = @ + 1,
                                !.call[c].trace = trace,
                                !.call[c].msgs = msgs, !.call[c].ins = ins]
                ELSE [st EXCEPT !.mu.r = @ \ {c}, !.mu.w = @ \ {c},
                                !.call[c].pc = "idle", !.call[c].mode = "",
                                !.call[c].conn = 0,
                                !.call[c].trace = trace,
                                !.call[c].msgs = msgs, !.call[c].ins = ins,
                                !.call[c].ret = ret]
       /\ UNCHANGED <<aroundStore, messages, insights, agents, sup>>

NextStore ==
    \E c \in Callers :
        \/ \E call \in StoreCalls : StoreBegin(c, call)
        \/ \E n \in 1..Cardinality(Callers) : StoreAcquire(c, n)
        \/ StoreSaveMessage(c)
        \/ StoreSaveInsight(c)
        \/ StoreSaveAgent(c)
        \/ StoreCreateTrace(c)
        \/ StoreRead(c)

SpecStore == Init /\ [][NextStore]_vars

(***************************************************************************)
(* Properties of the Store                                                 *)
(***************************************************************************)
\* caller c's call of op returns in this step
Returns(c, op) ==
    /\ st.call[c].pc = "held"
    /\ st.call[c].op = op
    /\ st'.call[c].pc = "idle"

\* C21: the Store never holds two Agents with one URL, and a SaveAgent call
\* that returns no error leaves the Agent of its URL with the call's name, description, version
\* and skills, while no Agent's URL or first-seen timestamp changes and the
\* Agents of other URLs stay as they were.
C21_UpsertOnUrl ==
    /\ [](\A i, j \in DOMAIN agents : agents[i].url = agents[j].url => i = j)
    /\ [][\A c \in Callers :
            (Returns(c, "SaveAgent") /\ st'.call[c].ret.ok) =>
                LET a == st.call[c].arg IN
                /\ \E i \in DOMAIN agents' :
                      /\ agents'[i].url = a.url
                      /\ agents'[i].name = a.name
                      /\ agents'[i].description = a.description
                      /\ agents'[i].version = a.version
                      /\ agents'[i].skills = a.skills
                /\ \A i \in DOMAIN agents :
                      /\ i \in DOMAIN agents'
                      /\ agents'[i].url = agents[i].url
                      /\ agents'[i].firstSeen = agents[i].firstSeen
                      /\ agents[i].url # a.url => agents'[i] = agents[i]]_vars

\* a known Agent was saved again: it has the later call's fields and the
\* first call's timestamp
C21_Witness ==
    \E i \in DOMAIN agents :
        /\ agents[i].url = AgentUrl
        /\ agents[i].name = "Bobby"
        /\ agents[i].version = "2.0"
        /\ agents[i].firstSeen = 1

\* caller c's ExportTrace has returned and no Store write ended while it ran
QuietExport(c) ==
    /\ st.call[c].ret.kind = "export"
    /\ st.call[c].ret.w0 = st.call[c].ret.w1

\* caller c takes a step of its ExportTrace call
ExportStep(c) ==
    /\ st.call[c].op = "ExportTrace"
    /\ st.call[c].pc = "held"
    /\ st'.call[c] # st.call[c]

\* C26: two ExportTrace calls with no Store write from the start of the one
\* to the end of the other return identical documents, and no step of an
\* ExportTrace call changes a Message, an Insight, an Agent or the Trace.
C26_ExportIsIdempotentRead ==
    /\ [](\A c, d \in Callers :
            (QuietExport(c) /\ QuietExport(d)
                /\ st.call[c].ret.w0 = st.call[d].ret.w0)
              => st.call[c].ret.doc = st.call[d].ret.doc)
    /\ [][\A c \in Callers :
            ExportStep(c) =>
                /\ messages' = messages
                /\ insights' = insights
                /\ agents' = agents
                /\ sup'.trace = sup.trace]_vars

\* the part of C26 the Store does keep: the exports that return a document
\* agree, and an export writes nothing
ExportsThatSucceedAgree ==
    /\ [](\A c, d \in Callers :
            (QuietExport(c) /\ QuietExport(d)
                /\ ~st.call[c].ret.err /\ ~st.call[d].ret.err
                /\ st.call[c].ret.w0 = st.call[d].ret.w0)
              => st.call[c].ret.doc = st.call[d].ret.doc)
    /\ [][\A c \in Callers :
            ExportStep(c) =>
                /\ messages' = messages
                /\ insights' = insights
                /\ agents' = agents
                /\ sup'.trace = sup.trace]_vars

\* caller c is inside a Store method, between taking s.mu and giving it back
Writing(c) == st.call[c].pc = "held" /\ Section(st.call[c]) \in WriteOps
Reading(c) == st.call[c].pc = "held" /\ Section(st.call[c]) \notin WriteOps

\* no write overlaps another write or a read
WritesSerialized ==
    \A c, d \in Callers : (c # d /\ Writing(c)) => ~(Writing(d) \/ Reading(d))

\* a finished GetMessages or GetInsights call holds every row of its table
\* whose Save had returned nil when the call began
ReadYourWrites ==
    \A c \in Callers :
        LET k == st.call[c] IN
        k.ret.kind \in {"messages", "insights"} =>
            \A e \in k.must :
                e[1] = k.ret.kind =>
                    \E i \in DOMAIN k.ret.rows : k.ret.rows[i].id = e[2]

\* C27: Store writes are serialized (no write overlaps a write or a read),
\* and every read that starts after a Save returned successfully includes
\* the saved record, whatever the interleaving of the callers.
C27_SerializedReadYourWrites == WritesSerialized /\ ReadYourWrites

\* every row of the table is there, unchanged, after the step
Kept(rows, rowsAfter) ==
    \A i \in DOMAIN rows : i \in DOMAIN rowsAfter /\ rowsAfter[i] = rows[i]

\* C28: Messages and Insights are append-only: no step of any Store call,
\* a save that reuses an identifier included, changes or removes a persisted
\* Message or Insight.
C28_AppendOnly == [][Kept(messages, messages') /\ Kept(insights, insights')]_vars

\* a SaveMessage that reused the identifier of a persisted Message with
\* other content has returned an error, and a Message with that id is there
C28_Witness ==
    \E c \in Callers :
        LET k == st.call[c] IN
        /\ k.op = "SaveMessage"
        /\ k.ret.kind = "save"
        /\ ~k.ret.ok
        /\ st.conns = 1
        /\ \E i \in DOMAIN messages :
              messages[i].id = k.arg.id /\ messages[i] # k.arg

\* the figures the summary sum gives for the Messages rows
FiguresOf(sum, rows) ==
    LET R == {i \in DOMAIN rows : rows[i].dir = "response"}
        D[i \in 0..Len(rows)] ==
            IF i = 0 THEN 0
            ELSE D[i - 1] + (IF i \in R THEN rows[i].dur ELSE 0)
    IN /\ sum.total_messages = Len(rows)
       /\ sum.error_count + sum.success_count = Cardinality(R)
       /\ sum.avg_duration_ms =
              IF R = {} THEN 0 ELSE D[Len(rows)] \div Cardinality(R)

\* C29: in every summary total_messages is the number of persisted Messages,
\* error_count + success_count is the number of response Messages, and
\* avg_duration_ms is the integer average of the duration over the response
\* Messages only, 0 when there is none.  The persisted Messages are those in
\* the Store when GetSummary reads them.
C29_SummaryFigures ==
    \A c \in Callers :
        st.call[c].ret.kind = "summary" =>
            FiguresOf(st.call[c].ret.sum, st.call[c].ret.persisted)

\* the part of C29 the Analyzer does keep: the figures are those of the list
\* GetMessages handed it
SummaryOfTheListRead ==
    \A c \in Callers :
        st.call[c].ret.kind = "summary" =>
            FiguresOf(st.call[c].ret.sum, st.call[c].ret.msgs)

(***************************************************************************)
(* Client.readPump and Client.handleMessage: the frames an observer sends. *)
(***************************************************************************)
\* a text frame: whether it is JSON, whether msg["type"] is a string, and
\* that string
Frame(json, typed, type) == [json |-> json, typed |-> typed, type |-> type]
Frames ==
    {Frame(FALSE, FALSE, ""), Frame(TRUE, FALSE, ""), Frame(TRUE, TRUE, "ping"),
     Frame(TRUE, TRUE, "replay"), Frame(TRUE, TRUE, "hello")}

\* handleMessage up to the switch: what the frame makes it do
handleMessage(f) ==
    IF ~f.json THEN "return"
    ELSE IF ~f.typed THEN "return"
    ELSE IF f.type = "ping" THEN "pong"
    ELSE "log"

\* readPump: c.conn.ReadMessage() returns a frame, handleMessage runs up to
\* its send or to its return
ReadFrame(o, f) ==
    /\ ~hub.panicked
    /\ hub.session[o] = "open"
    /\ hub.rd[o] = "read"
    /\ hub.frames < MaxFrames
    /\ hub' = [hub EXCEPT !.frames = @ + 1,
                          !.rd[o] = IF handleMessage(f) = "pong" THEN "pong"
                                    ELSE "read"]
    /\ UNCHANGED <<proxyState, sup, st>>

\* c.send <- response: waits while the buffer is full, panics when the Hub
\* has closed the channel
SendPong(o) ==
    /\ ~hub.panicked
    /\ hub.rd[o] = "pong"
    /\ hub.closed[o] \/ Room(hub.send[o])
    /\ hub' = IF hub.closed[o]
              THEN [hub EXCEPT !.panicked = TRUE, !.rd[o] = "read"]
              ELSE [hub EXCEPT !.send[o] = Append(@, Pong), !.rd[o] = "read"]
    /\ UNCHANGED <<proxyState, sup, st>>

NextObserver ==
    \/ NextHub
    \/ \E o \in Observers :
        \/ \E f \in Frames : ReadFrame(o, f)
        \/ SendPong(o)

SpecObserver == Init /\ [][NextObserver]_vars

\* handleMessage for a ping of observer o ends in this step
PingHandled(o) == hub.rd[o] = "pong" /\ hub'.rd[o] = "read"

\* readPump took a frame that is not a ping in this step
FrameIgnored == hub'.frames # hub.frames /\ hub'.rd = hub.rd

\* C30: handling an observer's ping enqueues one pong to that observer's own
\* session and nothing to any other, and a frame that is not JSON, has no
\* string type or has an unknown type changes nothing of the Hub or of a
\* session.
C30_PingPong ==
    /\ [][\A o \in Observers :
            PingHandled(o) =>
                /\ ~hub'.panicked
                /\ hub'.send[o] = Append(hub.send[o], Pong)
                /\ \A d \in Observers \ {o} : hub'.send[d] = hub.send[d]]_vars
    /\ [][FrameIgnored => hub' = [hub EXCEPT !.frames = hub'.frames]]_vars

\* the part of C30 the Hub does keep: a ping handled while the session's
\* channel is open enqueues its pong there and nowhere else, and the other
\* frames change nothing
PongWhileChannelOpen ==
    /\ [][\A o \in Observers :
            (PingHandled(o) /\ ~hub.closed[o]) =>
                /\ ~hub'.panicked
                /\ hub'.send[o] = Append(hub.send[o], Pong)
                /\ \A d \in Observers \ {o} : hub'.send[d] = hub.send[d]]_vars
    /\ [][FrameIgnored => hub' = [hub EXCEPT !.frames = hub'.frames]]_vars

(***************************************************************************)
(* The rule-order specification: responses on which each pair and all of  *)
(* the slow_response, error and protocol_violation rules fire, to a        *)
(* captured request and to one that is not captured.                       *)
(***************************************************************************)
OrderRequests == {PostRpc, PlainGet}
OrderOutcomes ==
    {Answer(500, "application/json", RpcResult(NumId(7)), MaxClock),
     Answer(500, "application/json", ObjectBody({"result"}), 0),
     Answer(200, "application/json", ObjectBody({"result"}), MaxClock),
     Answer(500, "application/json", ObjectBody({"result"}), MaxClock)}

NextOrder ==
    \E h \in Handlers :
        \/ RequestSteps(h, OrderRequests, MaxAnalyzed, StoreHealthy)
        \/ UpstreamSteps(h, OrderOutcomes)
        \/ ResponseSteps(h, StoreHealthy)
        \/ InsightSteps(h, StoreHealthy)
        \/ ErrorSteps(h)

SpecOrder == Init /\ [][NextOrder]_vars

\* the place of a rule in the order slow, error, protocol_violation, retry
Rank(category) ==
    CASE category = "slow_response" -> 1
      [] category = "error" -> 2
      [] category = "protocol_violation" -> 3
      [] category = "retry_loop" -> 4

\* the Insight an insight event announces
InsightOf(e) == CHOOSE i \in DOMAIN insights : insights[i].id = e.id
InsightEventsAt == {i \in DOMAIN broadcast : broadcast[i].type = "insight"}

\* C31: the insights of one Message are persisted, and broadcast, in the
\* order slow_response, error, protocol_violation, retry_loop, whichever of
\* the rules fire on it.
C31_RuleOrder ==
    /\ \A i, j \in DOMAIN insights :
          (i < j /\ insights[i].msgId = insights[j].msgId)
            => Rank(insights[i].category) < Rank(insights[j].category)
    /\ \A i, j \in InsightEventsAt :
          (i < j /\ insights[InsightOf(broadcast[i])].msgId
                      = insights[InsightOf(broadcast[j])].msgId)
            => Rank(broadcast[i].dir) < Rank(broadcast[j].dir)

\* a Message on which the three response rules fired, its insights
\* persisted and broadcast
C31_Witness ==
    \E m \in DOMAIN messages :
        /\ {insights[i].category :
                i \in {k \in DOMAIN insights : insights[k].msgId = messages[m].id}}
             = {"slow_response", "error", "protocol_violation"}
        /\ Cardinality({i \in InsightEventsAt :
                          broadcast[i].xid = messages[m].xid}) = 3

\* C32: Messages are analyzed one at a time: no two goroutines are inside
\* AnalyzeMessage together, so no two of them are at an access to a counter
\* map of the Analyzer together, and the insights of one Message are all
\* persisted and broadcast before the analysis of another Message begins.
C32_OneAnalysisAtATime ==
    /\ \A g, h \in Handlers :
          (InAnalyzeMessage(g) /\ InAnalyzeMessage(h)) => g = h
    /\ ~MapRace
    /\ \A g, h \in Handlers :
          (g # h /\ loc[g].pending # <<>>) => ~InAnalyzeMessage(h)

(***************************************************************************)
(* Hub.Run and Hub.ClientCount with h.mu: taking the mutex is a step, the  *)
(* work under it and its release the next.                                 *)
(***************************************************************************)
MuFree == hub.mu.w = {} /\ hub.mu.r = {}

\* case client := <-h.register: h.mu.Lock()
RunRegisterLock(o) ==
    /\ ~hub.panicked
    /\ hub.run = <<"select">>
    /\ hub.session[o] = "none"
    /\ MuFree
    /\ hub' = [hub EXCEPT !.mu.w = {"run"}, !.run = <<"register", o>>]
    /\ UNCHANGED <<proxyState, sup, st>>

\* h.clients[client] = true; h.mu.Unlock()
RunRegister(o) ==
    /\ hub.run = <<"register", o>>
    /\ hub' = [hub EXCEPT !.session[o] = "open", !.clients = @ \cup {o},
                          !.joined[o] = hub.taken,
                          !.mu.w = {}, !.run = <<"select">>]
    /\ UNCHANGED <<proxyState, sup, st>>

\* case client := <-h.unregister: h.mu.Lock()
RunUnregisterLock(o) ==
    /\ ~hub.panicked
    /\ hub.run = <<"select">>
    /\ hub.session[o] = "open"
    /\ hub.rd[o] = "read"
    /\ MuFree
    /\ hub' = [hub EXCEPT !.mu.w = {"run"}, !.run = <<"unregister", o>>]
    /\ UNCHANGED <<proxyState, sup, st>>

\* the delete and close(client.send) if the client is in the set;
\* h.mu.Unlock()
RunUnregister(o) ==
    /\ hub.run = <<"unregister", o>>
    /\ IF StillRegistered(hub.clients, o)
       THEN hub' = [hub EXCEPT !.session[o] = "gone", !.clients = @ \ {o},
                               !.panicked = hub.closed[o],
                               !.closed[o] = TRUE, !.closes[o] = @ + 1,
                               !.mu.w = {}, !.run = <<"select">>]
       ELSE hub' = [hub EXCEPT !.session[o] = "gone",
                               !.mu.w = {}, !.run = <<"select">>]
    /\ UNCHANGED <<proxyState, sup, st>>

\* case message := <-h.broadcast: h.mu.RLock()
RunBroadcastRLock ==
    /\ ~hub.panicked
    /\ hub.run = <<"select">>
    /\ hub.chan # <<>>
    /\ hub.mu.w = {}
    /\ hub' = [hub EXCEPT !.mu.r = @ \cup {"run"}, !.chan = Tail(@),
                          !.run = <<"broadcast", Head(hub.chan)>>]
    /\ UNCHANGED <<proxyState, sup, st>>

\* the loop over h.clients, with close and delete in its default branch;
\* h.mu.RUnlock()
RunBroadcast ==
    /\ hub.run[1] = "broadcast"
    /\ LET message == hub.run[2]
           full == Dropped(hub.clients, hub.send)
       IN hub' = [hub EXCEPT
            !.send = [c \in Observers |->
                        IF c \in hub.clients /\ Room(hub.send[c])
                        THEN Append(hub.send[c], message) ELSE hub.send[c]],
            !.closed = [c \in Observers |-> hub.closed[c] \/ c \in full],
            !.closes = [c \in Observers |->
                          hub.closes[c] + (IF c \in full THEN 1 ELSE 0)],
            !.clients = @ \ full,
            !.panicked = \E c \in full : hub.closed[c],
            !.mu.r = @ \ {"run"}, !.run = <<"select">>]
    /\ UNCHANGED <<proxyState, sup, st>>

\* ClientCount: h.mu.RLock()
CountRLock(k) ==
    /\ ~hub.panicked
    /\ hub.cnt[k] = "idle"
    /\ hub.mu.w = {}
    /\ hub' = [hub EXCEPT !.mu.r = @ \cup {k}, !.cnt[k] = "len"]
    /\ UNCHANGED <<proxyState, sup, st>>

\* return len(h.clients), with the deferred h.mu.RUnlock()
CountReturn(k) ==
    /\ hub.cnt[k] = "len"
    /\ hub' = [hub EXCEPT !.mu.r = @ \ {k}, !.cnt[k] = "idle"]
    /\ UNCHANGED <<proxyState, sup, st>>

NextHubMu ==
    \/ \E p \in Publishers : PublishCall(p) \/ PublishSend(p)
    \/ \E o \in Observers :
        \/ RunRegisterLock(o) \/ RunRegister(o)
        \/ RunUnregisterLock(o) \/ RunUnregister(o)
        \/ Drain(o)
    \/ RunBroadcastRLock \/ RunBroadcast
    \/ \E k \in Counters : CountRLock(k) \/ CountReturn(k)

SpecHubMu == Init /\ [][NextHubMu]_vars

\* Run is about to add to h.clients or to delete from it
Mutating ==
    \/ hub.run[1] = "register"
    \/ hub.run[1] = "unregister" /\ hub.run[2] \in hub.clients
    \/ hub.run[1] = "broadcast" /\ Dropped(hub.clients, hub.send) # {}

\* C33: every addition to and removal from the observer set is made with
\* h.mu held exclusively, and no ClientCount call is reading the set while
\* Run is in a section that changes it.
C33_SetChangesUnderLock ==
    /\ [][hub'.clients # hub.clients => hub.mu.w = {"run"}]_vars
    /\ [](Mutating => \A k \in Counters : hub.cnt[k] = "idle")

\* the part of C33 the Hub does keep: Run's register and unregister cases
\* change the set with h.mu held exclusively and no reader inside
RegisterUnderLock ==
    [][(hub'.clients # hub.clients /\ hub.run[1] # "broadcast")
          => hub.mu = [w |-> {"run"}, r |-> {}]]_vars

\* C34: once the handler of an exchange has returned, the request Message
\* it persisted is followed by exactly one persisted response Message of
\* that exchange, however the upstream call ended.
C34_ResponseForEveryRequest ==
    \A x \in DOMAIN exch :
        (Returned(x) /\ RequestRows(x) # {}) =>
            /\ Cardinality(ResponseRows(x)) = 1
            /\ \A i \in RequestRows(x), j \in ResponseRows(x) : i < j

\* the part of C34 the proxy does keep: the exit paths on which upstream
\* answered in full or the transport failed
ResponseWhenAnsweredOrRefused ==
    \A x \in DOMAIN exch :
        (Returned(x) /\ RequestRows(x) # {}
            /\ exch[x].up.kind \in {"ok", "transport"}) =>
            /\ Cardinality(ResponseRows(x)) = 1
            /\ \A i \in RequestRows(x), j \in ResponseRows(x) : i < j

\* C35: no goroutine sends on a session's buffer after the Hub has closed
\* it: Run offers messages to sessions of the observer set only, none of
\* which is closed, and handleMessage never sends a pong on a closed buffer.
C35_NoSendAfterClose ==
    /\ [](\A o \in hub.clients : ~hub.closed[o])
    /\ [][\A o \in Observers : PingHandled(o) => ~hub.closed[o]]_vars

\* the part of C35 the Hub does keep: Run's own sends
RunSendsToOpenBuffers ==
    [][\A o \in Observers :
          (Len(hub'.send[o]) > Len(hub.send[o]) /\ hub.rd[o] = "read")
            => ~hub.closed[o]]_vars

(***************************************************************************)
(* The session specification: the Hub, and writePump giving up.            *)
(***************************************************************************)
\* writePump returns on a write error, or after the close message it
\* writes once c.send is closed and drained; its deferred c.conn.Close()
\* makes readPump's ReadMessage fail
WriterGone(o) ==
    /\ ~hub.panicked
    /\ hub.session[o] = "open"
    /\ hub.wr[o] = "run"
    /\ hub' = [hub EXCEPT !.wr[o] = "gone"]
    /\ UNCHANGED <<proxyState, sup, st>>

NextSession ==
    \/ NextHub
    \/ \E o \in Observers : WriterGone(o)

SpecSession == Init /\ [][NextSession]_vars

\* C36: a session's send buffer is closed at most once, however the drop
\* of a full session, the observer's disconnect and the failure of its
\* writer interleave.
C36_ClosedAtMostOnce ==
    /\ ~hub.panicked
    /\ \A o \in Observers : hub.closes[o] <= 1

\* a session that was dropped for a full buffer, whose writer then gave up
\* and whose reader then unregistered
C36_Witness ==
    \E o \in Observers :
        /\ hub.session[o] = "gone"
        /\ hub.wr[o] = "gone"
        /\ Len(hub.send[o]) = SendCap
        /\ hub.closes[o] = 1

(***************************************************************************)
(* The fault specification: a Store that may refuse any write.             *)
(***************************************************************************)
StoreFaulty == {TRUE, FALSE}
FaultOutcomes ==
    {TransportFailure(0, "connection refused"),
     Answer(200, "application/json", RpcResult(NumId(7)), 0),
     Answer(500, "application/json", ObjectBody({"result"}), 0)}

NextFault ==
    \E h \in Handlers :
        \/ RequestSteps(h, RetryRequests, MaxAnalyzed, StoreFaulty)
        \/ UpstreamSteps(h, FaultOutcomes)
        \/ ResponseSteps(h, StoreFaulty)
        \/ InsightSteps(h, StoreFaulty)
        \/ ErrorSteps(h)

SpecFault == Init /\ [][NextFault]_vars

\* the record an event announces is in its table
Persisted(e) ==
    CASE e.type = "message" -> HasId(messages, e.id)
      [] e.type = "insight" -> HasId(insights, e.id)
      [] OTHER -> HasId(agents, e.id)

\* C37: an event is published only after its record was persisted: a
\* Message or Insight whose save failed is never broadcast, and no Message
\* whose save failed is handed to the analyzer.
C37_PublishedOnlyIfPersisted ==
    /\ \A i \in DOMAIN broadcast : Persisted(broadcast[i])
    /\ \A h \in Handlers :
          InAnalyzeMessage(h) =>
              HasId(messages, IF loc[h].cur = "request" THEN loc[h].reqMsg.id
                              ELSE loc[h].respMsg.id)

\* the part of C37 the analyzer does keep: insights
InsightPublishedOnlyIfPersisted ==
    \A i \in DOMAIN broadcast :
        broadcast[i].type = "insight" => Persisted(broadcast[i])

(***************************************************************************)
(* The delivery specification: the events the handlers broadcast go        *)
(* through the Hub to an observer.  h.broadcast holds 256 events, more     *)
(* than a behaviour here produces, so a Broadcast call never waits and the *)
(* channel is the part of the broadcast log Run has not dequeued; an event *)
(* travels as its place in that log.                                       *)
(***************************************************************************)
DeliveryOutcomes == {Answer(500, "application/json", RpcResult(NumId(7)), 0)}
\* the sessions of this specification
Watchers == {"o1"}

\* a buffer filled from the wrong end
Enqueue_front(buf, message) == << message >> \o buf

\* client.send <- message
Enqueue(buf, message) == Append(buf, message)

\* Run's broadcast case on the next event of h.broadcast
RunDeliver ==
    /\ ~crashed
    /\ ~hub.panicked
    /\ hub.taken < Len(broadcast)
    /\ LET message == hub.taken + 1
           full == Dropped(hub.clients, hub.send)
       IN hub' = [hub EXCEPT
            !.taken = message,
            !.send = [c \in Observers |->
                        IF c \in hub.clients /\ Room(hub.send[c])
                        THEN Enqueue(hub.send[c], message) ELSE hub.send[c]],
            !.closed = [c \in Observers |-> hub.closed[c] \/ c \in full],
            !.closes = [c \in Observers |->
                          hub.closes[c] + (IF c \in full THEN 1 ELSE 0)],
            !.clients = @ \ full,
            !.panicked = \E c \in full : hub.closed[c]]
    /\ UNCHANGED <<proxyState, sup, st>>

\* writePump: the message it takes from c.send and those queued behind it
\* go out in one frame, in the order of the buffer
WritePump(o) ==
    /\ ~crashed
    /\ ~hub.panicked
    /\ hub.send[o] # <<>>
    /\ hub.wr[o] = "run"
    /\ hub' = [hub EXCEPT !.got[o] = @ \o hub.send[o], !.send[o] = <<>>]
    /\ UNCHANGED <<proxyState, sup, st>>

NextDelivery ==
    \/ \E h \in Handlers :
        \/ RequestSteps(h, RetryRequests, MaxExchanges, StoreHealthy)
        \/ UpstreamSteps(h, DeliveryOutcomes)
        \/ ResponseSteps(h, StoreHealthy)
        \/ InsightSteps(h, StoreHealthy)
        \/ ErrorSteps(h)
    \/ FatalMapRace
    \/ \E o \in Watchers : Register(o) \/ WritePump(o)
    \/ RunDeliver

SpecDelivery == Init /\ [][NextDelivery]_vars

\* the events observer o's session was given, in the order it was given
\* them: those written to its connection, then those still in its buffer
Received(o) == hub.got[o] \o hub.send[o]

\* the place in the broadcast log of the message event of the Message an
\* insight event refers to
MessageEventOf(j) ==
    {i \in DOMAIN broadcast :
        /\ broadcast[i].type = "message"
        /\ broadcast[i].id = insights[InsightOf(broadcast[j])].msgId}

\* C38: an observer that was connected when a Message's event was dequeued
\* and has received an insight event referring to that Message received the
\* message event first, and every observer receives events in the order in
\* which the Hub dequeued them.
C38_MessageBeforeInsight ==
    \A o \in Observers :
        LET q == Received(o) IN
        /\ \A a, b \in DOMAIN q : a < b => q[a] < q[b]
        /\ \A b \in DOMAIN q :
              broadcast[q[b]].type = "insight" =>
                  \A i \in MessageEventOf(q[b]) :
                      /\ i < q[b]
                      /\ hub.joined[o] < i => \E a \in DOMAIN q : a < b /\ q[a] = i

\* an observer has been written the message event and the insight event of
\* one exchange with an event of the other exchange between them
C38_Witness ==
    \E o \in Observers :
        \E a, b, c \in DOMAIN hub.got[o] :
            /\ a < b /\ b < c
            /\ broadcast[hub.got[o][c]].type = "insight"
            /\ hub.got[o][a] \in MessageEventOf(hub.got[o][c])
            /\ broadcast[hub.got[o][b]].xid # broadcast[hub.got[o][a]].xid

(***************************************************************************)
(* The export against the writes of the proxy (store.go ExportTrace).      *)
(***************************************************************************)
\* every insight of a document that refers to a message has the message in
\* the document
Closed(doc) ==
    LET ins == doc[1][2]
        msgs == doc[2][2]
    IN \A i \in DOMAIN ins :
          ins[i].msgId # "" => \E j \in DOMAIN msgs : msgs[j].id = ins[i].msgId

\* caller c's ExportTrace returned a document
Exported(c) == st.call[c].ret.kind = "export" /\ ~st.call[c].ret.err

\* C39: a document ExportTrace returns equals what the Store held at one
\* instant of the call, and when the Store never held an insight without its
\* message during the call the document holds none either.
C39_ExportIsSnapshot ==
    \A c \in Callers :
        Exported(c) =>
            /\ st.call[c].ret.doc \in st.call[c].snaps
            /\ (\A d \in st.call[c].snaps : Closed(d)) => Closed(st.call[c].ret.doc)

\* what ExportTrace does keep: each list of the document is what its table
\* held at one instant of the call
ExportListsAreSnapshots ==
    \A c \in Callers :
        Exported(c) =>
            /\ \E d \in st.call[c].snaps : d[1][2] = st.call[c].ret.doc[1][2]
            /\ \E d \in st.call[c].snaps : d[2][2] = st.call[c].ret.doc[2][2]
            /\ \E d \in st.call[c].snaps : d[3][2] = st.call[c].ret.doc[3][2]

(***************************************************************************)
(* The end of a run that a signal interrupts (main.go:216-266).  The child *)
(* is free to ignore SIGTERM for ever; SIGKILL it cannot ignore.  The      *)
(* goroutine os/exec starts for exec.CommandContext, the goroutine that    *)
(* calls procMgr.Wait and main itself are scheduled by the Go runtime, so  *)
(* each of their steps is taken once it stays possible.                    *)
(***************************************************************************)
\* SIGKILL has reached the child
KillDelivered ==
    \E i \in DOMAIN sup.child.signals : sup.child.signals[i].sig = "KILL"

\* the kernel ends a child that was sent SIGKILL
ChildKilled ==
    /\ KillDelivered
    /\ ChildSignalExit

SpecMainLive ==
    /\ Init /\ [][NextMain]_vars
    /\ WF_vars(CtxKill)
    /\ WF_vars(ChildKilled)
    /\ WF_vars(WaitDone)
    /\ WF_vars(\E ok \in StoreHealthy : Complete(ok))
    /\ WF_vars(MainExit)

====
